---------------------------- MODULE Spec2Model ----------------------------
(***************************************************************************)
(* Epoch stake-table core (types/src/v0/impls/stake_table.rs).             *)
(*                                                                         *)
(* StakeTableState is the event-sourced state machine: apply_event folds   *)
(* one stake-table contract event into an insertion-ordered validator map  *)
(* and two sets of used keys.  validators_from_l1_events folds a whole     *)
(* event iterator and stops at the first fatal error.                      *)
(*                                                                         *)
(*   Spec      any sequence of StakeTableState::apply_event calls          *)
(*   FoldSpec  one run of validators_from_l1_events                        *)
(*   SelectSpec   one call of select_active_validator_set                  *)
(*   ThrSpec      success_threshold and upgrade_threshold of a total stake *)
(*   CacheSpec    the EpochCommittees cache and lookup_leader              *)
(*   LockSpec     add_epoch_root and get_epoch_root run by two tasks       *)
(*   FetcherSpec  spawn_update_loop called by concurrent tasks             *)
(*   EventsSpec   the sort and the dedup of fetched events                 *)
(*   LoopSpec     the update loop beside the L1 client                     *)
(*   FetchEventsSpec      one call of fetch_events                         *)
(*   FetchEventsFairSpec  the same, every call to the L1 provider          *)
(*                        succeeding in the end                            *)
(*   LeaderSpec   lookup_leader on the cache of any member list            *)
(*   IndexSpec    address and get_validator_config after update            *)
(*   ChunksSpec   the chunks iterator of fetch_events_from_contract        *)
(*   ScanSpec     the backward scan for the token's Initialized log        *)
(*   IngestSpec   from_l1_logs and sort_events on any seven batches        *)
(***************************************************************************)
EXTENDS Integers, Sequences, FiniteSets, TLC

(***************************************************************************)
(* Universes of the inputs.                                                *)
(***************************************************************************)
Accounts == {"a1", "a2"}
BlsKeys == {"k1", "k2", "k3"}
SchnorrKeys == {"s1", "s2", "s3"}
Delegators == {"d1", "d2"}
Commissions == {5}
\* Amounts carried by Delegated / Undelegated events (U256 in the code).
Amounts == {0, 1, 2}
\* Cap on a validator's total stake (a U256 in the code, far from its width).
MaxStake == 2

VARIABLES
    validators,         \* StakeTableState.validators : IndexMap<Address, Validator>
    used_bls_keys,      \* StakeTableState.used_bls_keys
    used_schnorr_keys,  \* StakeTableState.used_schnorr_keys
    event,              \* the latest apply_event call: its event's tag and target
    result,             \* the ApplyEventResult of the latest call
    exited,             \* history: accounts removed by a successful Deregister
    bls_holders,        \* history: BLS key -> accounts that held it in the map
    pc,                 \* validators_from_l1_events: "api" | "loop" | "ok" | "err"
    selected_from,      \* history: the map select_active_validator_set was given
    total_stake,        \* the total stake of the committee the thresholds are for
    threshold,          \* the latest threshold computed: which one, its value, its steps
    non_epoch_committee,    \* EpochCommittees.non_epoch_committee
    state,                  \* EpochCommittees.state : HashMap<Epoch, EpochCommittee>
    randomized_committees,  \* EpochCommittees.randomized_committees
    first_epoch,            \* EpochCommittees.first_epoch : Option<Epoch>
    block_reward,           \* EpochCommittees.block_reward
    last_call,              \* the latest call on the cache, its arguments and result
    tasks,                  \* the tasks calling the cache: call, position, locals
    held,                   \* the guards each task holds
    update_task,            \* Fetcher.update_task: the slot of the update loop
    spawned,                \* history: the number of update loops spawned
    last_finalized,         \* l1_client.state.last_finalized
    xs,                     \* a list of (EventKey, StakeTableEvent) pairs
    events                  \* the events vector being sorted and deduplicated

selVars == <<selected_from>>
thrVars == <<total_stake, threshold>>
cacheVars == <<non_epoch_committee, state, randomized_committees, first_epoch,
               block_reward, last_call>>
lockVars == <<tasks, held>>
fetcherVars == <<update_task, spawned, last_finalized>>
eventVars == <<xs, events>>

vars == <<validators, used_bls_keys, used_schnorr_keys, event, result,
          exited, bls_holders, pc, selVars, thrVars, cacheVars, lockVars,
          fetcherVars, eventVars>>

\* what the stake-table state machine leaves alone
others == <<selVars, thrVars, cacheVars, lockVars, fetcherVars, eventVars>>

(***************************************************************************)
(* Events (StakeTableEvent).  The signatures of a V2 event are modelled by *)
(* what authenticate() makes of them: each is "valid" for the event's      *)
(* account and keys, or "corrupt".                                         *)
(***************************************************************************)
Sigs == {"valid", "corrupt"}

RegisterEvents ==
    [tag : {"Register"}, account : Accounts, blsVk : BlsKeys,
     schnorrVk : SchnorrKeys, commission : Commissions]

RegisterV2Events ==
    [tag : {"RegisterV2"}, account : Accounts, blsVk : BlsKeys,
     schnorrVk : SchnorrKeys, commission : Commissions,
     blsSig : Sigs, schnorrSig : Sigs]

DeregisterEvents == [tag : {"Deregister"}, validator : Accounts]

DelegateEvents ==
    [tag : {"Delegate"}, delegator : Delegators, validator : Accounts,
     amount : Amounts]

UndelegateEvents ==
    [tag : {"Undelegate"}, delegator : Delegators, validator : Accounts,
     amount : Amounts]

KeyUpdateEvents ==
    [tag : {"KeyUpdate"}, account : Accounts, blsVk : BlsKeys,
     schnorrVk : SchnorrKeys]

KeyUpdateV2Events ==
    [tag : {"KeyUpdateV2"}, account : Accounts, blsVk : BlsKeys,
     schnorrVk : SchnorrKeys, blsSig : Sigs, schnorrSig : Sigs]

Events ==
    RegisterEvents \cup RegisterV2Events \cup DeregisterEvents \cup
    DelegateEvents \cup UndelegateEvents \cup KeyUpdateEvents \cup
    KeyUpdateV2Events

\* ValidatorRegisteredV2::authenticate / ConsensusKeysUpdatedV2::authenticate:
\* both embedded signatures verify.
Authenticate(ev) == ev.blsSig = "valid" /\ ev.schnorrSig = "valid"

\* The account an event targets.
Target(ev) ==
    IF ev.tag \in {"Deregister", "Delegate", "Undelegate"}
    THEN ev.validator ELSE ev.account

(***************************************************************************)
(* ApplyEventResult: Ok(Ok(())), Ok(Err(expected)), Err(fatal).            *)
(***************************************************************************)
OkResult == [kind |-> "Ok", err |-> "-", arg |-> "-"]
Expected(e, a) == [kind |-> "Expected", err |-> e, arg |-> a]
Fatal(e, a) == [kind |-> "Fatal", err |-> e, arg |-> a]
NoResult == [kind |-> "None", err |-> "-", arg |-> "-"]
NoEvent == [tag |-> "None", target |-> "-"]

IsFatal(r) == r.kind = "Fatal"

\* What one apply_event call leaves behind: the state and the value returned.
Ret(st, r) == [state |-> st, result |-> r]

(***************************************************************************)
(* IndexMap and HashMap helpers.                                           *)
(***************************************************************************)
\* IndexMap::new / HashSet::new
NewState == [validators |-> <<>>, used_bls_keys |-> {}, used_schnorr_keys |-> {}]

\* the keys of the IndexMap, i.e. the accounts in the map
KeysOf(vs) == {vs[i].account : i \in 1..Len(vs)}

\* IndexMap::get_index_of
IndexOf(vs, a) == CHOOSE i \in 1..Len(vs) : vs[i].account = a

\* IndexMap::entry(account) is Occupied / IndexMap::get_mut(account) is Some
ContainsKey(vs, a) == a \in KeysOf(vs)

\* IndexMap::shift_remove: removes the entry, survivors keep their order
ShiftRemove(vs, a) ==
    LET i == IndexOf(vs, a) IN
    SubSeq(vs, 1, i - 1) \o SubSeq(vs, i + 1, Len(vs))

\* HashMap<Address, U256> is a set of <<delegator, amount>> pairs, one per key.
\* HashMap::contains_key
MapHas(m, d) == \E p \in m : p[1] = d

\* HashMap::get (the key is present)
MapGet(m, d) == (CHOOSE p \in m : p[1] = d)[2]

\* HashMap::remove
MapRemove(m, d) == {p \in m : p[1] # d}

\* HashMap::get_mut + assignment (the key is present)
MapSet(m, d, amount) == MapRemove(m, d) \cup {<<d, amount>>}

\* mutant: or_insert without and_modify, a present entry is left as it is
MapAddOrInsert_NoModify(m, d, amount) ==
    IF MapHas(m, d) THEN m ELSE m \cup {<<d, amount>>}

\* HashMap::entry(d).and_modify(|s| *s += amount).or_insert(amount)
MapAddOrInsert(m, d, amount) ==
    IF MapHas(m, d) THEN MapSet(m, d, MapGet(m, d) + amount)
    ELSE m \cup {<<d, amount>>}

RECURSIVE SumOver(_)
SumOver(m) ==
    IF m = {} THEN 0
    ELSE LET p == CHOOSE q \in m : TRUE IN p[2] + SumOver(m \ {p})

\* sum(v.delegators.values())
DelegatedSum(v) == SumOver(v.delegators)

\* the fresh validator a registration inserts
NewValidator(a, b, s, c) ==
    [account |-> a, stake_table_key |-> b, state_ver_key |-> s,
     stake |-> 0, commission |-> c, delegators |-> {}]

\* mutant: the subtraction is refused when it would leave nothing
CheckedSubOk_Strict(x, amount) == x > amount

\* U256::checked_sub is Some
CheckedSubOk(x, amount) == x >= amount

(***************************************************************************)
(* StakeTableState::apply_event, one operator per match arm.  Each returns *)
(* the state the call leaves behind (also when it returns an error) and    *)
(* the value returned.                                                     *)
(***************************************************************************)
\* mutant: the BLS key is checked and recorded before the account is looked up
ApplyRegister_KeysFirst(st, ev) ==
    IF ev.blsVk \in st.used_bls_keys
    THEN Ret(st, Fatal("BlsKeyAlreadyUsed", ev.blsVk))
    ELSE LET st1 == [st EXCEPT !.used_bls_keys = @ \cup {ev.blsVk}] IN
         IF ContainsKey(st.validators, ev.account)
         THEN Ret(st1, Fatal("AlreadyRegistered", ev.account))
         ELSE IF ev.schnorrVk \in st1.used_schnorr_keys
         THEN Ret(st1, Expected("SchnorrKeyAlreadyUsed", ev.schnorrVk))
         ELSE Ret([st1 EXCEPT
                     !.used_schnorr_keys = @ \cup {ev.schnorrVk},
                     !.validators = Append(@, NewValidator(ev.account,
                                       ev.blsVk, ev.schnorrVk, ev.commission))],
                  OkResult)

ApplyRegister(st, ev) ==
    IF ContainsKey(st.validators, ev.account)
    THEN Ret(st, Fatal("AlreadyRegistered", ev.account))
    ELSE IF ev.blsVk \in st.used_bls_keys
    THEN Ret(st, Fatal("BlsKeyAlreadyUsed", ev.blsVk))
    ELSE LET st1 == [st EXCEPT !.used_bls_keys = @ \cup {ev.blsVk}] IN
         IF ev.schnorrVk \in st1.used_schnorr_keys
         THEN Ret(st1, Expected("SchnorrKeyAlreadyUsed", ev.schnorrVk))
         ELSE Ret([st1 EXCEPT
                     !.used_schnorr_keys = @ \cup {ev.schnorrVk},
                     !.validators = Append(@, NewValidator(ev.account,
                                       ev.blsVk, ev.schnorrVk, ev.commission))],
                  OkResult)

\* mutant: the signatures are checked after the account
ApplyRegisterV2_AuthLate(st, ev) ==
    IF ContainsKey(st.validators, ev.account)
    THEN Ret(st, Fatal("AlreadyRegistered", ev.account))
    ELSE IF ~Authenticate(ev)
    THEN Ret(st, Fatal("AuthenticationFailed", "-"))
    ELSE IF ev.blsVk \in st.used_bls_keys
    THEN Ret(st, Fatal("BlsKeyAlreadyUsed", ev.blsVk))
    ELSE LET st1 == [st EXCEPT !.used_bls_keys = @ \cup {ev.blsVk}] IN
         IF ev.schnorrVk \in st1.used_schnorr_keys
         THEN Ret(st1, Expected("SchnorrKeyAlreadyUsed", ev.schnorrVk))
         ELSE Ret([st1 EXCEPT
                     !.used_schnorr_keys = @ \cup {ev.schnorrVk},
                     !.validators = Append(@, NewValidator(ev.account,
                                       ev.blsVk, ev.schnorrVk, ev.commission))],
                  OkResult)

ApplyRegisterV2(st, ev) ==
    IF ~Authenticate(ev)
    THEN Ret(st, Fatal("AuthenticationFailed", "-"))
    ELSE IF ContainsKey(st.validators, ev.account)
    THEN Ret(st, Fatal("AlreadyRegistered", ev.account))
    ELSE IF ev.blsVk \in st.used_bls_keys
    THEN Ret(st, Fatal("BlsKeyAlreadyUsed", ev.blsVk))
    ELSE LET st1 == [st EXCEPT !.used_bls_keys = @ \cup {ev.blsVk}] IN
         IF ev.schnorrVk \in st1.used_schnorr_keys
         THEN Ret(st1, Expected("SchnorrKeyAlreadyUsed", ev.schnorrVk))
         ELSE Ret([st1 EXCEPT
                     !.used_schnorr_keys = @ \cup {ev.schnorrVk},
                     !.validators = Append(@, NewValidator(ev.account,
                                       ev.blsVk, ev.schnorrVk, ev.commission))],
                  OkResult)

\* mutant: an exit releases the validator's BLS key
ApplyDeregister_FreesKey(st, ev) ==
    IF ~ContainsKey(st.validators, ev.validator)
    THEN Ret(st, Fatal("ValidatorNotFound", ev.validator))
    ELSE Ret([st EXCEPT
                !.validators = ShiftRemove(@, ev.validator),
                !.used_bls_keys = @ \ {st.validators[
                    IndexOf(st.validators, ev.validator)].stake_table_key}],
             OkResult)

ApplyDeregister(st, ev) ==
    IF ~ContainsKey(st.validators, ev.validator)
    THEN Ret(st, Fatal("ValidatorNotFound", ev.validator))
    ELSE Ret([st EXCEPT !.validators = ShiftRemove(@, ev.validator)], OkResult)

\* mutant: the amount is not checked
ApplyDelegate_NoZeroCheck(st, ev) ==
    IF ~ContainsKey(st.validators, ev.validator)
    THEN Ret(st, Fatal("ValidatorNotFound", ev.validator))
    ELSE LET i == IndexOf(st.validators, ev.validator) IN
         Ret([st EXCEPT
                !.validators[i].stake = @ + ev.amount,
                !.validators[i].delegators =
                    MapAddOrInsert(@, ev.delegator, ev.amount)],
             OkResult)

ApplyDelegate(st, ev) ==
    IF ~ContainsKey(st.validators, ev.validator)
    THEN Ret(st, Fatal("ValidatorNotFound", ev.validator))
    ELSE IF ev.amount = 0
    THEN Ret(st, Fatal("ZeroDelegatorStake", ev.delegator))
    ELSE LET i == IndexOf(st.validators, ev.validator) IN
         Ret([st EXCEPT
                !.validators[i].stake = @ + ev.amount,
                !.validators[i].delegators =
                    MapAddOrInsert(@, ev.delegator, ev.amount)],
             OkResult)

\* mutant: an entry that reaches zero stays in the delegators map
ApplyUndelegate_KeepsZero(st, ev) ==
    IF ~ContainsKey(st.validators, ev.validator)
    THEN Ret(st, Fatal("ValidatorNotFound", ev.validator))
    ELSE LET i == IndexOf(st.validators, ev.validator)
             val == st.validators[i] IN
         IF ~CheckedSubOk(val.stake, ev.amount)
         THEN Ret(st, Fatal("InsufficientStake", "-"))
         ELSE LET st1 == [st EXCEPT !.validators[i].stake = @ - ev.amount] IN
              IF ~MapHas(val.delegators, ev.delegator)
              THEN Ret(st1, Fatal("DelegatorNotFound", ev.delegator))
              ELSE LET delegator_stake == MapGet(val.delegators, ev.delegator) IN
                   IF ~CheckedSubOk(delegator_stake, ev.amount)
                   THEN Ret(st1, Fatal("InsufficientStake", "-"))
                   ELSE Ret([st1 EXCEPT !.validators[i].delegators =
                                MapSet(@, ev.delegator,
                                       delegator_stake - ev.amount)], OkResult)

\* val.stake is assigned (line 342) before the delegator is looked up.
ApplyUndelegate(st, ev) ==
    IF ~ContainsKey(st.validators, ev.validator)
    THEN Ret(st, Fatal("ValidatorNotFound", ev.validator))
    ELSE LET i == IndexOf(st.validators, ev.validator)
             val == st.validators[i] IN
         IF ~CheckedSubOk(val.stake, ev.amount)
         THEN Ret(st, Fatal("InsufficientStake", "-"))
         ELSE LET st1 == [st EXCEPT !.validators[i].stake = @ - ev.amount] IN
              IF ~MapHas(val.delegators, ev.delegator)
              THEN Ret(st1, Fatal("DelegatorNotFound", ev.delegator))
              ELSE LET delegator_stake == MapGet(val.delegators, ev.delegator) IN
                   IF ~CheckedSubOk(delegator_stake, ev.amount)
                   THEN Ret(st1, Fatal("InsufficientStake", "-"))
                   ELSE IF delegator_stake - ev.amount = 0
                   THEN Ret([st1 EXCEPT !.validators[i].delegators =
                                MapRemove(@, ev.delegator)], OkResult)
                   ELSE Ret([st1 EXCEPT !.validators[i].delegators =
                                MapSet(@, ev.delegator,
                                       delegator_stake - ev.amount)], OkResult)

\* mutant: the key update does not consult used_bls_keys
ApplyKeyUpdate_NoBlsCheck(st, ev) ==
    IF ~ContainsKey(st.validators, ev.account)
    THEN Ret(st, Fatal("ValidatorNotFound", ev.account))
    ELSE LET st1 == [st EXCEPT !.used_bls_keys = @ \cup {ev.blsVk}]
             i == IndexOf(st.validators, ev.account) IN
         IF ev.schnorrVk \in st1.used_schnorr_keys
         THEN Ret(st1, Expected("SchnorrKeyAlreadyUsed", ev.schnorrVk))
         ELSE Ret([st1 EXCEPT
                     !.used_schnorr_keys = @ \cup {ev.schnorrVk},
                     !.validators[i].stake_table_key = ev.blsVk,
                     !.validators[i].state_ver_key = ev.schnorrVk],
                  OkResult)

ApplyKeyUpdate(st, ev) ==
    IF ~ContainsKey(st.validators, ev.account)
    THEN Ret(st, Fatal("ValidatorNotFound", ev.account))
    ELSE IF ev.blsVk \in st.used_bls_keys
    THEN Ret(st, Fatal("BlsKeyAlreadyUsed", ev.blsVk))
    ELSE LET st1 == [st EXCEPT !.used_bls_keys = @ \cup {ev.blsVk}]
             i == IndexOf(st.validators, ev.account) IN
         IF ev.schnorrVk \in st1.used_schnorr_keys
         THEN Ret(st1, Expected("SchnorrKeyAlreadyUsed", ev.schnorrVk))
         ELSE Ret([st1 EXCEPT
                     !.used_schnorr_keys = @ \cup {ev.schnorrVk},
                     !.validators[i].stake_table_key = ev.blsVk,
                     !.validators[i].state_ver_key = ev.schnorrVk],
                  OkResult)

\* mutant: the validator's keys are overwritten before the Schnorr key is
\* checked
ApplyKeyUpdateV2_CommitFirst(st, ev) ==
    IF ~Authenticate(ev)
    THEN Ret(st, Fatal("AuthenticationFailed", "-"))
    ELSE IF ~ContainsKey(st.validators, ev.account)
    THEN Ret(st, Fatal("ValidatorNotFound", ev.account))
    ELSE IF ev.blsVk \in st.used_bls_keys
    THEN Ret(st, Fatal("BlsKeyAlreadyUsed", ev.blsVk))
    ELSE LET i == IndexOf(st.validators, ev.account)
             st1 == [st EXCEPT
                       !.used_bls_keys = @ \cup {ev.blsVk},
                       !.validators[i].stake_table_key = ev.blsVk,
                       !.validators[i].state_ver_key = ev.schnorrVk] IN
         IF ev.schnorrVk \in st1.used_schnorr_keys
         THEN Ret(st1, Expected("SchnorrKeyAlreadyUsed", ev.schnorrVk))
         ELSE Ret([st1 EXCEPT !.used_schnorr_keys = @ \cup {ev.schnorrVk}],
                  OkResult)

\* mutant: a V2 key update refused for its Schnorr key does not record the
\* BLS key
ApplyKeyUpdateV2_KeepsBls(st, ev) ==
    IF ~Authenticate(ev)
    THEN Ret(st, Fatal("AuthenticationFailed", "-"))
    ELSE IF ~ContainsKey(st.validators, ev.account)
    THEN Ret(st, Fatal("ValidatorNotFound", ev.account))
    ELSE IF ev.blsVk \in st.used_bls_keys
    THEN Ret(st, Fatal("BlsKeyAlreadyUsed", ev.blsVk))
    ELSE LET i == IndexOf(st.validators, ev.account) IN
         IF ev.schnorrVk \in st.used_schnorr_keys
         THEN Ret(st, Expected("SchnorrKeyAlreadyUsed", ev.schnorrVk))
         ELSE Ret([st EXCEPT
                     !.used_bls_keys = @ \cup {ev.blsVk},
                     !.used_schnorr_keys = @ \cup {ev.schnorrVk},
                     !.validators[i].stake_table_key = ev.blsVk,
                     !.validators[i].state_ver_key = ev.schnorrVk],
                  OkResult)

ApplyKeyUpdateV2(st, ev) ==
    IF ~Authenticate(ev)
    THEN Ret(st, Fatal("AuthenticationFailed", "-"))
    ELSE IF ~ContainsKey(st.validators, ev.account)
    THEN Ret(st, Fatal("ValidatorNotFound", ev.account))
    ELSE IF ev.blsVk \in st.used_bls_keys
    THEN Ret(st, Fatal("BlsKeyAlreadyUsed", ev.blsVk))
    ELSE LET st1 == [st EXCEPT !.used_bls_keys = @ \cup {ev.blsVk}]
             i == IndexOf(st.validators, ev.account) IN
         IF ev.schnorrVk \in st1.used_schnorr_keys
         THEN Ret(st1, Expected("SchnorrKeyAlreadyUsed", ev.schnorrVk))
         ELSE Ret([st1 EXCEPT
                     !.used_schnorr_keys = @ \cup {ev.schnorrVk},
                     !.validators[i].stake_table_key = ev.blsVk,
                     !.validators[i].state_ver_key = ev.schnorrVk],
                  OkResult)

\* StakeTableState::apply_event
ApplyEvent(st, ev) ==
    CASE ev.tag = "Register" -> ApplyRegister(st, ev)
      [] ev.tag = "RegisterV2" -> ApplyRegisterV2(st, ev)
      [] ev.tag = "Deregister" -> ApplyDeregister(st, ev)
      [] ev.tag = "Delegate" -> ApplyDelegate(st, ev)
      [] ev.tag = "Undelegate" -> ApplyUndelegate(st, ev)
      [] ev.tag = "KeyUpdate" -> ApplyKeyUpdate(st, ev)
      [] ev.tag = "KeyUpdateV2" -> ApplyKeyUpdateV2(st, ev)

(***************************************************************************)
(* The state machine.                                                      *)
(***************************************************************************)
\* the StakeTableState held in the variables
State ==
    [validators |-> validators, used_bls_keys |-> used_bls_keys,
     used_schnorr_keys |-> used_schnorr_keys]

\* Delegated amounts are token amounts: a validator's stake and each
\* delegator's entry stay within MaxStake, so += never reaches the width
\* of U256.
WithinStake(st, ev) ==
    ev.tag = "Delegate" /\ ContainsKey(st.validators, ev.validator)
        => LET val == st.validators[IndexOf(st.validators, ev.validator)] IN
           /\ val.stake + ev.amount <= MaxStake
           /\ MapHas(val.delegators, ev.delegator)
                => MapGet(val.delegators, ev.delegator) + ev.amount <= MaxStake

\* what the history keeps of an event
Header(ev) == [tag |-> ev.tag, target |-> Target(ev)]

\* the history of BLS key holders, extended by the holders in the map vs
Holders(h, vs) ==
    [k \in BlsKeys |->
        h[k] \cup {vs[i].account :
                     i \in {j \in 1..Len(vs) : vs[j].stake_table_key = k}}]

\* one call of apply_event(ev) on the state, with the history updated
Call(ev) ==
    /\ WithinStake(State, ev)
    /\ \E r \in {ApplyEvent(State, ev)} :
          /\ validators' = r.state.validators
          /\ used_bls_keys' = r.state.used_bls_keys
          /\ used_schnorr_keys' = r.state.used_schnorr_keys
          /\ event' = Header(ev)
          /\ result' = r.result
          /\ exited' = IF ev.tag = "Deregister" /\ r.result = OkResult
                       THEN exited \cup {ev.validator} ELSE exited
          /\ bls_holders' = Holders(bls_holders, r.state.validators)
    /\ UNCHANGED others

\* the values of the variables of a component that is not running
SelIdle == selected_from = <<>>
ThrIdle == total_stake = 0 /\ threshold = [fn |-> "none", value |-> 0, steps |-> {}]
CacheIdle ==
    /\ non_epoch_committee = <<>>
    /\ state = <<>>
    /\ randomized_committees = <<>>
    /\ first_epoch = <<>>
    /\ block_reward = 0
    /\ last_call = <<>>
LockIdle == tasks = <<>> /\ held = <<>>
FetcherIdle == update_task = <<>> /\ spawned = 0 /\ last_finalized = <<>>
EventsIdle == xs = <<>> /\ events = <<>>

IdleOthers ==
    SelIdle /\ ThrIdle /\ CacheIdle /\ LockIdle /\ FetcherIdle /\ EventsIdle

StakeIdle ==
    /\ validators = NewState.validators
    /\ used_bls_keys = NewState.used_bls_keys
    /\ used_schnorr_keys = NewState.used_schnorr_keys
    /\ event = NoEvent
    /\ result = NoResult
    /\ exited = {}
    /\ bls_holders = [k \in BlsKeys |-> {}]

InitState == StakeIdle /\ IdleOthers

(***************************************************************************)
(* Input universes.  Spec draws the registration, exit and key-update      *)
(* events over all accounts and keys; StakeSpec draws the delegation       *)
(* events over all delegators and amounts, with each account registering   *)
(* under its own key pair.                                                 *)
(***************************************************************************)
HomeBls(a) == IF a = "a1" THEN "k1" ELSE "k2"
HomeSchnorr(a) == IF a = "a1" THEN "s1" ELSE "s2"

KeyEvents ==
    RegisterEvents \cup RegisterV2Events \cup DeregisterEvents \cup
    KeyUpdateEvents \cup KeyUpdateV2Events

StakeEvents ==
    {ev \in RegisterEvents :
        ev.blsVk = HomeBls(ev.account) /\ ev.schnorrVk = HomeSchnorr(ev.account)}
    \cup DeregisterEvents \cup DelegateEvents \cup UndelegateEvents

\* StakeEvents and the registrations of a2 under a1's Schnorr key
FoldEvents ==
    StakeEvents \cup
    {ev \in RegisterEvents \cup RegisterV2Events :
        ev.account = "a2" /\ ev.blsVk = "k3" /\ ev.schnorrVk = "s1"}

Tagged(S, tag) == {ev \in S : ev.tag = tag}

Init == InitState /\ pc = "api"

Register == \E ev \in Tagged(KeyEvents, "Register") : Call(ev) /\ UNCHANGED pc
RegisterV2 == \E ev \in Tagged(KeyEvents, "RegisterV2") : Call(ev) /\ UNCHANGED pc
Deregister == \E ev \in Tagged(KeyEvents, "Deregister") : Call(ev) /\ UNCHANGED pc
KeyUpdate == \E ev \in Tagged(KeyEvents, "KeyUpdate") : Call(ev) /\ UNCHANGED pc
KeyUpdateV2 == \E ev \in Tagged(KeyEvents, "KeyUpdateV2") : Call(ev) /\ UNCHANGED pc

Next ==
    \/ Register
    \/ RegisterV2
    \/ Deregister
    \/ KeyUpdate
    \/ KeyUpdateV2

Spec == Init /\ [][Next]_vars

StakeRegister == \E ev \in Tagged(StakeEvents, "Register") : Call(ev) /\ UNCHANGED pc
StakeDeregister == \E ev \in Tagged(StakeEvents, "Deregister") : Call(ev) /\ UNCHANGED pc
Delegate == \E ev \in Tagged(StakeEvents, "Delegate") : Call(ev) /\ UNCHANGED pc
Undelegate == \E ev \in Tagged(StakeEvents, "Undelegate") : Call(ev) /\ UNCHANGED pc

StakeNext ==
    \/ StakeRegister
    \/ StakeDeregister
    \/ Delegate
    \/ Undelegate

StakeSpec == Init /\ [][StakeNext]_vars

(***************************************************************************)
(* validators_from_l1_events: the fold over an event iterator.             *)
(***************************************************************************)
\* mutant: an expected error ends the fold too
FoldPc_AbortOnExpected(r) == IF r.kind # "Ok" THEN "err" ELSE "loop"

\* the match on apply_event's result: continue, or return the fatal error
FoldPc(r) == IF IsFatal(r) THEN "err" ELSE "loop"

\* one iteration of `for event in events`
FoldStep ==
    /\ pc = "loop"
    /\ \E ev \in FoldEvents :
          /\ Call(ev)
          /\ pc' = FoldPc(result')

\* the iterator is exhausted: Ok(state.get_validators())
FoldReturn ==
    /\ pc = "loop"
    /\ pc' = "ok"
    /\ UNCHANGED <<validators, used_bls_keys, used_schnorr_keys, event,
                   result, exited, bls_holders, others>>

FoldInit == InitState /\ pc = "loop"

FoldNext == FoldStep \/ FoldReturn

FoldSpec == FoldInit /\ [][FoldNext]_vars

(***************************************************************************)
(* Properties.                                                             *)
(***************************************************************************)
\* IndexMap::get (the account is present)
Val(vs, a) == vs[IndexOf(vs, a)]

\* the amount a delegator currently has delegated to a validator
Delegated(v, d) == IF MapHas(v.delegators, d) THEN MapGet(v.delegators, d) ELSE 0

AuthenticV2 ==
    {ev \in RegisterV2Events \cup KeyUpdateV2Events : Authenticate(ev)}

Registrations == RegisterEvents \cup (RegisterV2Events \cap AuthenticV2)
KeyUpdates == KeyUpdateEvents \cup (KeyUpdateV2Events \cap AuthenticV2)

\* C1: while validators_from_l1_events has met no fatal error, every
\* validator's stake is the sum of its delegators' amounts and no delegator
\* entry is zero.
C1_StakeIsDelegatedSum ==
    pc \in {"loop", "ok"} =>
        \A i \in 1..Len(validators) :
            /\ validators[i].stake = DelegatedSum(validators[i])
            /\ \A p \in validators[i].delegators : p[2] # 0

\* C1 witness: the fold goes on after an Undelegate that left a validator
\* with one of its delegators and a positive stake, beside another validator.
C1_Witness ==
    /\ pc = "loop"
    /\ event.tag = "Undelegate"
    /\ result = OkResult
    /\ Len(validators) = 2
    /\ LET v == Val(validators, event.target) IN
       v.stake = 1 /\ Cardinality(v.delegators) = 1

\* C2: no two validators of the map hold the same BLS key, and a BLS key
\* that an account ever held is never held by another account.
C2_BlsKeyOneHolder ==
    /\ \A i, j \in 1..Len(validators) :
          validators[i].stake_table_key = validators[j].stake_table_key => i = j
    /\ \A k \in BlsKeys : Cardinality(bls_holders[k]) <= 1

\* C2 witness: two validators are registered and one of them has given up a
\* key it held, through a key update.
C2_Witness ==
    /\ Len(validators) = 2
    /\ event.tag \in {"KeyUpdate", "KeyUpdateV2"}
    /\ result = OkResult
    /\ \E k \in BlsKeys :
          /\ bls_holders[k] = {event.target}
          /\ Val(validators, event.target).stake_table_key # k

\* the BLS keys recorded so far: used_bls_keys, which holds every key a
\* validator holds or held
RecordedBls ==
    used_bls_keys \cup {k \in BlsKeys : bls_holders[k] # {}}
        \cup {validators[i].stake_table_key : i \in 1..Len(validators)}

\* C3 as stated: a Register / RegisterV2 of an account not in the map, or a
\* KeyUpdate / KeyUpdateV2 of a validator in the map, with a recorded BLS key
\* returns the fatal BlsKeyAlreadyUsed, whatever the event's signatures.
C3_Original ==
    \A ev \in RegisterEvents \cup RegisterV2Events
                \cup KeyUpdateEvents \cup KeyUpdateV2Events :
        /\ ev.tag \in {"Register", "RegisterV2"}
               <=> ~ContainsKey(validators, ev.account)
        /\ ev.blsVk \in RecordedBls
        => ApplyEvent(State, ev).result = Fatal("BlsKeyAlreadyUsed", ev.blsVk)

\* C3 amended: a Register or authenticated RegisterV2 of an account not in
\* the map, or a KeyUpdate or authenticated KeyUpdateV2 of a validator in the
\* map, whose BLS key was recorded by an earlier registration or key update
\* (a validator's own current key and the keys of deregistered validators
\* included) returns the fatal BlsKeyAlreadyUsed; every key ever held is
\* recorded in used_bls_keys.
C3_BlsKeyOneShot ==
    /\ RecordedBls = used_bls_keys
    /\ \A ev \in Registrations \cup KeyUpdates :
          /\ ev.tag \in {"Register", "RegisterV2"}
                 <=> ~ContainsKey(validators, ev.account)
          /\ ev.blsVk \in RecordedBls
          => ApplyEvent(State, ev).result = Fatal("BlsKeyAlreadyUsed", ev.blsVk)

\* C3 witness: a call was refused with BlsKeyAlreadyUsed for the key of a
\* validator that had been deregistered before.
C3_Witness ==
    /\ result.kind = "Fatal" /\ result.err = "BlsKeyAlreadyUsed"
    /\ \E a \in exited :
          /\ ~ContainsKey(validators, a)
          /\ a # event.target
          /\ bls_holders[result.arg] = {a}

C5_Original ==
    \A a \in exited :
        \A ev \in Events :
            Target(ev) = a => IsFatal(ApplyEvent(State, ev).result)

\* C6: a Register or authenticated RegisterV2 of an account that is in the
\* map returns the fatal AlreadyRegistered(account), whatever its keys, and
\* leaves the state unchanged.
C6_AlreadyRegistered ==
    \A ev \in Registrations :
        ContainsKey(validators, ev.account)
        => ApplyEvent(State, ev)
               = Ret(State, Fatal("AlreadyRegistered", ev.account))

\* C6 witness: a RegisterV2 of a registered account was refused with
\* AlreadyRegistered while unused keys remain.
C6_Witness ==
    /\ event.tag = "RegisterV2"
    /\ result = Fatal("AlreadyRegistered", event.target)
    /\ ContainsKey(validators, event.target)
    /\ used_bls_keys # BlsKeys
    /\ used_schnorr_keys # SchnorrKeys

\* C7: in the fold, a Register or authenticated RegisterV2 of a new account
\* with an unused BLS key and a used Schnorr key yields the expected
\* SchnorrKeyAlreadyUsed, inserts no validator and removes none, and the
\* fold goes on: an expected error never ends it.
C7_SchnorrReuseContinues ==
    /\ pc = "loop" =>
          \A ev \in Registrations :
              /\ ~ContainsKey(validators, ev.account)
              /\ ev.blsVk \notin used_bls_keys
              /\ ev.schnorrVk \in used_schnorr_keys
              => LET r == ApplyEvent(State, ev) IN
                 /\ r.result = Expected("SchnorrKeyAlreadyUsed", ev.schnorrVk)
                 /\ r.state.validators = validators
                 /\ FoldPc(r.result) = "loop"
    /\ result.kind = "Expected" => pc \in {"loop", "ok"}

\* C7 witness: a2's registration under a1's Schnorr key was skipped (its
\* BLS key k3 is recorded and was never held), a later registration of a2
\* was applied, and a1 is still in the result.
C7_Witness ==
    /\ pc = "ok"
    /\ "k3" \in used_bls_keys /\ bls_holders["k3"] = {}
    /\ KeysOf(validators) = {"a1", "a2"}
    /\ validators[1].account = "a1"

\* C8: a RegisterV2 or KeyUpdateV2 whose signatures do not authenticate
\* returns the fatal AuthenticationFailed in every state and leaves the
\* state unchanged.
C8_AuthenticationFailed ==
    \A ev \in (RegisterV2Events \cup KeyUpdateV2Events) \ AuthenticV2 :
        ApplyEvent(State, ev) = Ret(State, Fatal("AuthenticationFailed", "-"))

\* C8 witness: an unauthenticated RegisterV2 of an account that is already
\* registered was refused with AuthenticationFailed.
C8_Witness ==
    /\ event.tag = "RegisterV2"
    /\ result = Fatal("AuthenticationFailed", "-")
    /\ ContainsKey(validators, event.target)

\* the Undelegate events of a registered validator whose delegator has
\* delegated less than the event's amount
Overdrawn ==
    {ev \in UndelegateEvents :
        /\ ContainsKey(validators, ev.validator)
        /\ Delegated(Val(validators, ev.validator), ev.delegator) < ev.amount}

\* C9 as stated: an Undelegate of more than the delegator has delegated to
\* a registered validator returns the fatal InsufficientStake.
C9_Original ==
    \A ev \in Overdrawn :
        ApplyEvent(State, ev).result = Fatal("InsufficientStake", "-")

\* C9 amended: such an Undelegate returns a fatal error: InsufficientStake
\* when the validator's total stake is smaller than the amount or the
\* delegator has an entry, DelegatorNotFound(delegator) when the delegator
\* has no entry and the validator's stake covers the amount.
C9_UndelegateOverdrawn ==
    \A ev \in Overdrawn :
        LET v == Val(validators, ev.validator) IN
        ApplyEvent(State, ev).result =
            IF v.stake < ev.amount \/ MapHas(v.delegators, ev.delegator)
            THEN Fatal("InsufficientStake", "-")
            ELSE Fatal("DelegatorNotFound", ev.delegator)

\* C9 witness: an Undelegate was refused with InsufficientStake on a
\* validator that has no delegator left and no stake.
C9_Witness ==
    /\ event.tag = "Undelegate"
    /\ result = Fatal("InsufficientStake", "-")
    /\ ContainsKey(validators, event.target)
    /\ Val(validators, event.target).delegators = {}
    /\ Val(validators, event.target).stake = 0
    /\ Len(validators) = 2

\* C10: a Delegate of amount 0 to a registered validator returns the fatal
\* ZeroDelegatorStake(delegator) and changes nothing; a Delegate to an
\* account not in the map returns ValidatorNotFound whatever the amount.
C10_DelegateRejected ==
    \A ev \in DelegateEvents :
        /\ ContainsKey(validators, ev.validator) /\ ev.amount = 0
           => ApplyEvent(State, ev)
                  = Ret(State, Fatal("ZeroDelegatorStake", ev.delegator))
        /\ ~ContainsKey(validators, ev.validator)
           => ApplyEvent(State, ev)
                  = Ret(State, Fatal("ValidatorNotFound", ev.validator))

\* C10 witness: a Delegate of amount 0 to a validator with stake was refused
\* with ZeroDelegatorStake.
C10_Witness ==
    /\ event.tag = "Delegate"
    /\ result.kind = "Fatal" /\ result.err = "ZeroDelegatorStake"
    /\ ContainsKey(validators, event.target)
    /\ Val(validators, event.target).stake > 0

(***************************************************************************)
(* select_active_validator_set: the active set of a validator map.         *)
(***************************************************************************)
\* the divisor of the minimum stake (hotshot_types, scaled down)
VID_TARGET_TOTAL_STAKE == 2
\* the greatest size of the active set
MaxActive == 100

\* Err(StakeTableError) of select_active_validator_set
SelectErr(e) == [kind |-> "Err", err |-> e, arg |-> "-"]

\* mutant: the first retain looks at the delegators only
IsValid_DelegatorsOnly(v) == v.delegators # {}

\* the predicate of the first retain: a delegator and a non-zero stake
IsValid(v) == v.delegators # {} /\ v.stake # 0

\* validators.values().map(|v| v.stake).max() (the map is not empty)
MaximumStake(vs) ==
    CHOOSE m \in {vs[i].stake : i \in 1..Len(vs)} :
        \A i \in 1..Len(vs) : vs[i].stake <= m

\* U256::checked_div: None when the divisor is zero
CheckedDiv(x, d) == IF d = 0 THEN <<>> ELSE <<x \div d>>

\* the (address, stake) pairs of the validators with stake >= minimum_stake
ValidStakers(vs, minimum_stake) ==
    LET kept == SelectSeq(vs, LAMBDA v : v.stake >= minimum_stake) IN
    [i \in 1..Len(kept) |-> <<kept[i].account, kept[i].stake>>]

\* mutant: the valid stakers stay in the order of the map
SortByStakeReverse_Unsorted(s) == s

\* sort_by_key(|(_, stake)| Reverse(*stake)): a stable sort, so the pairs of
\* the greatest stake come first, in the order they had, then the others
RECURSIVE SortByStakeReverse(_)
SortByStakeReverse(s) ==
    IF Len(s) = 0 THEN <<>>
    ELSE LET m == CHOOSE x \in {s[i][2] : i \in 1..Len(s)} :
                      \A i \in 1..Len(s) : s[i][2] <= x
         IN SelectSeq(s, LAMBDA p : p[2] = m)
                \o SortByStakeReverse(SelectSeq(s, LAMBDA p : p[2] # m))

\* mutant: the list of valid stakers is never cut
Truncate_Never(s, n) == s

\* if len > n { truncate(n) }
Truncate(s, n) == IF Len(s) > n THEN SubSeq(s, 1, n) ELSE s

\* mutant: the maximum stake is taken before the first retain
SelectActiveValidatorSet_MaxOfAll(vs) ==
    LET valid == SelectSeq(vs, IsValid) IN
    IF Len(valid) = 0 THEN [validators |-> valid,
                            result |-> SelectErr("NoValidValidators")]
    ELSE LET quotient == CheckedDiv(MaximumStake(vs), VID_TARGET_TOTAL_STAKE) IN
    IF quotient = <<>>
    THEN [validators |-> valid, result |-> SelectErr("MinimumStakeOverflow")]
    ELSE
    LET minimum_stake == quotient[1]
        valid_stakers ==
            Truncate(SortByStakeReverse(ValidStakers(valid, minimum_stake)),
                     MaxActive)
        selected_addresses ==
            {valid_stakers[i][1] : i \in 1..Len(valid_stakers)}
    IN [validators |->
            SelectSeq(valid, LAMBDA v : v.account \in selected_addresses),
        result |-> OkResult]

\* select_active_validator_set: the map it leaves and the value it returns
SelectActiveValidatorSet(vs) ==
    LET valid == SelectSeq(vs, IsValid) IN
    IF Len(valid) = 0 THEN [validators |-> valid,
                            result |-> SelectErr("NoValidValidators")]
    ELSE LET quotient == CheckedDiv(MaximumStake(valid), VID_TARGET_TOTAL_STAKE) IN
    IF quotient = <<>>
    THEN [validators |-> valid, result |-> SelectErr("MinimumStakeOverflow")]
    ELSE
    LET minimum_stake == quotient[1]
        valid_stakers ==
            Truncate(SortByStakeReverse(ValidStakers(valid, minimum_stake)),
                     MaxActive)
        selected_addresses ==
            {valid_stakers[i][1] : i \in 1..Len(valid_stakers)}
    IN [validators |->
            SelectSeq(valid, LAMBDA v : v.account \in selected_addresses),
        result |-> OkResult]

\* Validator maps given to the selection: a head of up to HeadLen validators
\* of any stake, with or without a delegator, then a run of equal validators
\* long enough for the map to exceed MaxActive; and the same maps in the
\* reverse order, the run first.
HeadLen == 2
SelStakes == {0, 1, 2 * VID_TARGET_TOTAL_STAKE, 2 * VID_TARGET_TOTAL_STAKE + 1}

SelValidator(i, stake, delegated) ==
    [account |-> i, stake_table_key |-> i, state_ver_key |-> i,
     stake |-> stake, commission |-> 5,
     delegators |-> IF delegated THEN {<<"d1", stake>>} ELSE {}]

RECURSIVE SelHeads(_)
SelHeads(n) ==
    IF n = 0 THEN {<<>>}
    ELSE SelHeads(n - 1) \cup
         {Append(h, SelValidator(n, s, d)) :
             h \in {g \in SelHeads(n - 1) : Len(g) = n - 1},
             s \in SelStakes, d \in BOOLEAN}

SelTail(h, n, s) ==
    h \o [i \in 1..n |-> SelValidator(Len(h) + i, s, TRUE)]

SelMaps ==
    LET front == {SelTail(h, n, s) :
                     h \in SelHeads(HeadLen),
                     n \in {0, MaxActive - 1, MaxActive},
                     s \in {1, 2 * VID_TARGET_TOTAL_STAKE}}
    IN front \cup {[i \in 1..Len(m) |-> m[Len(m) + 1 - i]] : m \in front}

SelectInit ==
    /\ validators \in SelMaps
    /\ used_bls_keys = {}
    /\ used_schnorr_keys = {}
    /\ event = NoEvent
    /\ result = NoResult
    /\ exited = {}
    /\ bls_holders = [k \in BlsKeys |-> {}]
    /\ pc = "select"
    /\ selected_from = <<>>
    /\ ThrIdle /\ CacheIdle /\ LockIdle /\ FetcherIdle /\ EventsIdle

\* one call of select_active_validator_set(&mut validators), on a given map
\* or on the map a first call has left with Ok
Select ==
    /\ pc \in {"select", "selected"}
    /\ \E r \in {SelectActiveValidatorSet(validators)} :
          /\ validators' = r.validators
          /\ result' = r.result
          /\ pc' = IF r.result # OkResult THEN "select_err"
                   ELSE IF pc = "select" THEN "selected" ELSE "selected_again"
    /\ selected_from' = validators
    /\ UNCHANGED <<used_bls_keys, used_schnorr_keys, event, exited,
                   bls_holders, thrVars, cacheVars, lockVars, fetcherVars,
                   eventVars>>

SelectSpec == SelectInit /\ [][Select]_vars

\* the validators of the given map with a delegator and a non-zero stake
Qualifying == SelectSeq(selected_from, IsValid)

\* C11: when select_active_validator_set returns Ok, the map holds between 1
\* and 100 validators, each with a non-zero stake, a delegator, and a stake
\* of at least floor(M / VID_TARGET_TOTAL_STAKE), M being the greatest stake
\* among the given validators with a non-zero stake and a delegator.
C11_ActiveSetBounds ==
    pc = "selected" =>
        /\ Len(validators) >= 1
        /\ Len(validators) <= 100
        /\ \A i \in 1..Len(validators) :
              /\ validators[i].stake # 0
              /\ validators[i].delegators # {}
              /\ validators[i].stake >=
                    MaximumStake(Qualifying) \div VID_TARGET_TOTAL_STAKE

\* C11 witness: more than 100 of the given validators qualified and one of
\* them was under the minimum stake; the selection returned Ok with 100.
C11_Witness ==
    /\ pc = "selected"
    /\ Len(Qualifying) > 100
    /\ \E i \in 1..Len(Qualifying) :
          Qualifying[i].stake <
              MaximumStake(Qualifying) \div VID_TARGET_TOTAL_STAKE
    /\ Len(validators) = 100

\* C12: select_active_validator_set returns NoValidValidators exactly when
\* no validator of the given map has both a non-zero stake and a delegator.
C12_NoValidValidators ==
    pc \in {"selected", "select_err"} =>
        (result = SelectErr("NoValidValidators")
            <=> \A i \in 1..Len(selected_from) :
                    selected_from[i].stake = 0
                        \/ selected_from[i].delegators = {})

\* C12 witness: the error was returned for a map whose validators have a
\* delegator and no stake, or a stake and no delegator.
C12_Witness ==
    /\ pc = "select_err"
    /\ result = SelectErr("NoValidValidators")
    /\ \E i, j \in 1..Len(selected_from) :
          /\ selected_from[i].stake = 0 /\ selected_from[i].delegators # {}
          /\ selected_from[j].stake # 0 /\ selected_from[j].delegators = {}

(***************************************************************************)
(* EpochCommittees: the voting thresholds of a committee, computed from    *)
(* its total stake in unsigned arithmetic of Width bits (256 in the code). *)
(* An operation whose result does not fit panics or wraps, as the build    *)
(* decides: each threshold gives its value with wrapping operations and    *)
(* the exact result of every operation it performed.                       *)
(***************************************************************************)
Width == 8
U256_MAX == 2 ^ Width - 1
Wrap(x) == x % (U256_MAX + 1)

\* mutant: the product is taken whatever the total stake
success_threshold_NoGuard(n) ==
    LET a == n * 2
        b == Wrap(a) \div 3
        c == b + 1
    IN [fn |-> "success", value |-> Wrap(c), steps |-> {a, b, c}]

\* success_threshold, total_stake being n
success_threshold(n) ==
    IF n < U256_MAX \div 2
    THEN LET a == n * 2
             b == Wrap(a) \div 3
             c == b + 1
         IN [fn |-> "success", value |-> Wrap(c), steps |-> {a, b, c}]
    ELSE LET a == n \div 3
             b == a * 2
             c == Wrap(b) + 2
         IN [fn |-> "success", value |-> Wrap(c), steps |-> {a, b, c}]

\* mutant: nine tenths are taken product first, whatever the total stake
higher_threshold_NoGuard(n) ==
    LET a == n * 9
        b == Wrap(a) \div 10
    IN [value |-> b, steps |-> {a, b}]

\* higher_threshold of upgrade_threshold
higher_threshold(n) ==
    IF n < U256_MAX \div 9
    THEN LET a == n * 9
             b == Wrap(a) \div 10
         IN [value |-> b, steps |-> {a, b}]
    ELSE LET a == n \div 10
             b == a * 9
         IN [value |-> Wrap(b), steps |-> {a, b}]

\* upgrade_threshold: max(higher_threshold, normal_threshold)
upgrade_threshold(n) ==
    LET normal == success_threshold(n)
        higher == higher_threshold(n)
    IN [fn |-> "upgrade",
        value |-> IF higher.value >= normal.value THEN higher.value
                  ELSE normal.value,
        steps |-> normal.steps \cup higher.steps]

\* mutant: one more than half of the total stake
failure_threshold_Half(n) ==
    LET a == n \div 2
        b == a + 1
    IN [fn |-> "failure", value |-> Wrap(b), steps |-> {a, b}]

\* failure_threshold, total_stake being n
failure_threshold(n) ==
    LET a == n \div 3
        b == a + 1
    IN [fn |-> "failure", value |-> Wrap(b), steps |-> {a, b}]

ThrInit ==
    /\ StakeIdle
    /\ pc = "api"
    /\ total_stake \in 0..U256_MAX
    /\ threshold = [fn |-> "none", value |-> 0, steps |-> {}]
    /\ SelIdle /\ CacheIdle /\ LockIdle /\ FetcherIdle /\ EventsIdle

\* a call of success_threshold(epoch)
SuccessThreshold ==
    /\ threshold' = success_threshold(total_stake)
    /\ UNCHANGED <<validators, used_bls_keys, used_schnorr_keys, event,
                   result, exited, bls_holders, pc, selVars, total_stake,
                   cacheVars, lockVars, fetcherVars, eventVars>>

\* a call of upgrade_threshold(epoch)
UpgradeThreshold ==
    /\ threshold' = upgrade_threshold(total_stake)
    /\ UNCHANGED <<validators, used_bls_keys, used_schnorr_keys, event,
                   result, exited, bls_holders, pc, selVars, total_stake,
                   cacheVars, lockVars, fetcherVars, eventVars>>

\* a call of failure_threshold(epoch)
FailureThreshold ==
    /\ threshold' = failure_threshold(total_stake)
    /\ UNCHANGED <<validators, used_bls_keys, used_schnorr_keys, event,
                   result, exited, bls_holders, pc, selVars, total_stake,
                   cacheVars, lockVars, fetcherVars, eventVars>>

ThrSpec ==
    ThrInit /\ [][SuccessThreshold \/ UpgradeThreshold \/ FailureThreshold]_vars

\* C13 as stated: success_threshold(n) >= ceil(2n/3) + 1 for every n.
C13_Original ==
    threshold.fn = "success" =>
        threshold.value >= (2 * total_stake + 2) \div 3 + 1

\* C13: success_threshold(n) >= floor(2n/3) + 1 for every total stake n of
\* the unsigned width, so that it exceeds two thirds of n.
C13_SuccessAboveTwoThirds ==
    threshold.fn = "success" =>
        /\ threshold.value >= (2 * total_stake) \div 3 + 1
        /\ 3 * threshold.value > 2 * total_stake

\* C13 witness: the threshold of a total stake of MAX/2 or more that leaves
\* the remainder 2 when divided by three has been computed, and it is
\* floor(2n/3) + 1.
C13_Witness ==
    /\ threshold.fn = "success"
    /\ total_stake >= U256_MAX \div 2
    /\ total_stake % 3 = 2
    /\ threshold.value = (2 * total_stake) \div 3 + 1

\* C14: for every total stake n in [0, MAX] success_threshold and
\* upgrade_threshold perform no operation whose result exceeds MAX; success
\* is (2n/3)+1 when n < MAX/2 and (n/3)*2+2 otherwise; upgrade is
\* max(success, t), t being (9n)/10 when n < MAX/9 and (n/10)*9 otherwise.
C14_ThresholdsClosedForm ==
    LET n == total_stake
        success == IF n < U256_MAX \div 2 THEN (2 * n) \div 3 + 1
                   ELSE (n \div 3) * 2 + 2
        t == IF n < U256_MAX \div 9 THEN (9 * n) \div 10 ELSE (n \div 10) * 9
    IN /\ threshold.fn # "none" =>
              \A x \in threshold.steps : x <= U256_MAX
       /\ threshold.fn = "success" => threshold.value = success
       /\ threshold.fn = "upgrade" =>
              threshold.value = IF t >= success THEN t ELSE success

\* C14 witness: the upgrade threshold of a total stake of MAX/2 or more, for
\* which neither product could be taken first, is nine tenths of it.
C14_Witness ==
    /\ threshold.fn = "upgrade"
    /\ total_stake >= U256_MAX \div 2
    /\ threshold.value = (total_stake \div 10) * 9
    /\ threshold.value > (total_stake \div 3) * 2 + 2

(***************************************************************************)
(* EpochCommittees: the committee cache keyed by epoch, the randomized     *)
(* committees and the leader lookup.  A HashMap / BTreeMap keyed by epoch  *)
(* is a set of <<epoch, value>> pairs; an Option is <<>> or <<value>>.     *)
(***************************************************************************)
\* Epoch::genesis()
Genesis == 0
MaxEpoch == 2
Epochs == 0..MaxEpoch
Views == {0, 1}
Drbs == {0, 1}

None == <<>>

PeerConfig(k, stake, s) ==
    [stake_table_key |-> k, stake |-> stake, state_ver_key |-> s]

\* the committee_members given to new_stake
MemberLists ==
    {<<PeerConfig("k1", 1, "s1")>>,
     <<PeerConfig("k1", 1, "s1"), PeerConfig("k2", 0, "s2"),
       PeerConfig("k3", 2, "s3")>>}

\* the validator maps given to update
UpdateMaps ==
    {<<[NewValidator("a2", "k2", "s2", 5) EXCEPT
            !.stake = 1, !.delegators = {<<"d1", 1>>}]>>}

\* the cache as one value
Cache ==
    [non_epoch_committee |-> non_epoch_committee, state |-> state,
     randomized_committees |-> randomized_committees,
     first_epoch |-> first_epoch, block_reward |-> block_reward]

\* new_stake: members without stake are dropped; the genesis epoch and the
\* one after it get the committee of the members
new_stake(committee_members, reward) ==
    LET stake_table == SelectSeq(committee_members, LAMBDA p : p.stake > 0)
        epoch_committee ==
            [eligible_leaders |-> stake_table, stake_table |-> stake_table,
             validators |-> <<>>, address_mapping |-> {}]
    IN [non_epoch_committee |-> [eligible_leaders |-> stake_table,
                                 stake_table |-> stake_table],
        state |-> {<<Genesis, epoch_committee>>, <<Genesis + 1, epoch_committee>>},
        randomized_committees |-> {},
        first_epoch |-> None,
        block_reward |-> reward]

\* mutant: the address mapping is left empty
update_NoAddresses(c, epoch, vs, reward) ==
    LET Last(k) == CHOOSE i \in 1..Len(vs) :
                       /\ vs[i].stake_table_key = k
                       /\ \A j \in i + 1..Len(vs) : vs[j].stake_table_key # k
        firsts == SelectSeq([i \in 1..Len(vs) |-> i],
                            LAMBDA i : \A j \in 1..i - 1 :
                                vs[j].stake_table_key # vs[i].stake_table_key)
        stake_table ==
            [n \in 1..Len(firsts) |->
                LET v == vs[Last(vs[firsts[n]].stake_table_key)] IN
                PeerConfig(v.stake_table_key, v.stake, v.state_ver_key)]
    IN [c EXCEPT !.state =
            MapSet(c.state, epoch,
                   [eligible_leaders |-> stake_table,
                    stake_table |-> stake_table, validators |-> vs,
                    address_mapping |-> {}]),
                 !.block_reward = IF reward # None THEN reward[1] ELSE @]

\* update: the committee of a validator map is stored for the epoch, and the
\* block reward when one is given.  The stake table is an IndexMap collected
\* from the validators in the map's order and the address mapping a HashMap
\* filled in that order: of two validators with one BLS key the first gives
\* the key its place and the last its entry and its account.
update(c, epoch, vs, reward) ==
    LET Last(k) == CHOOSE i \in 1..Len(vs) :
                       /\ vs[i].stake_table_key = k
                       /\ \A j \in i + 1..Len(vs) : vs[j].stake_table_key # k
        firsts == SelectSeq([i \in 1..Len(vs) |-> i],
                            LAMBDA i : \A j \in 1..i - 1 :
                                vs[j].stake_table_key # vs[i].stake_table_key)
        stake_table ==
            [n \in 1..Len(firsts) |->
                LET v == vs[Last(vs[firsts[n]].stake_table_key)] IN
                PeerConfig(v.stake_table_key, v.stake, v.state_ver_key)]
        address_mapping ==
            {<<vs[i].stake_table_key, vs[Last(vs[i].stake_table_key)].account>> :
                i \in 1..Len(vs)}
    IN [c EXCEPT !.state =
            MapSet(c.state, epoch,
                   [eligible_leaders |-> stake_table,
                    stake_table |-> stake_table, validators |-> vs,
                    address_mapping |-> address_mapping]),
                 !.block_reward = IF reward # None THEN reward[1] ELSE @]

\* generate_stake_cdf: the randomized committee of the leaders and the DRB
generate_stake_cdf(leaders, drb) == [leaders |-> leaders, drb |-> drb]

\* select_randomized_leader: a leader determined by the committee and the view
select_randomized_leader(committee, view) ==
    committee.leaders[((view + committee.drb) % Len(committee.leaders)) + 1]

\* add_drb_result: nothing without the epoch's committee
add_drb_result(c, epoch, drb) ==
    IF ~MapHas(c.state, epoch) THEN c
    ELSE [c EXCEPT !.randomized_committees =
            MapSet(c.randomized_committees, epoch,
                   generate_stake_cdf(MapGet(c.state, epoch).eligible_leaders,
                                      drb))]

\* mutant: only the first epoch itself is seeded
set_first_epoch_OneEpoch(c, epoch, drb) ==
    LET epoch_committee == MapGet(c.state, Genesis)
        seeded == [c EXCEPT !.first_epoch = <<epoch>>,
                            !.state = MapSet(c.state, epoch, epoch_committee)]
    IN add_drb_result(seeded, epoch, drb)

\* set_first_epoch
set_first_epoch(c, epoch, drb) ==
    LET epoch_committee == MapGet(c.state, Genesis)
        seeded == [c EXCEPT !.first_epoch = <<epoch>>,
                            !.state = MapSet(MapSet(c.state, epoch, epoch_committee),
                                             epoch + 1, epoch_committee)]
    IN add_drb_result(add_drb_result(seeded, epoch, drb), epoch + 1, drb)

LeaderLookupError == [kind |-> "Err", key |-> "-"]
\* `view_number as usize % leaders.len()` with no leader: the remainder by
\* zero panics
LeaderLookupPanic == [kind |-> "Panic", key |-> "-"]

\* mutant: without an epoch a leader is given only while first_epoch is unset
lookup_leader_BothNone(c, view, epoch) ==
    IF c.first_epoch # None /\ epoch # None
    THEN IF epoch[1] < c.first_epoch[1] THEN LeaderLookupError
         ELSE IF ~MapHas(c.randomized_committees, epoch[1])
         THEN LeaderLookupError
         ELSE [kind |-> "Ok", key |-> select_randomized_leader(
                           MapGet(c.randomized_committees, epoch[1]), view).stake_table_key]
    ELSE IF c.first_epoch = None /\ epoch = None
    THEN LET leaders == c.non_epoch_committee.eligible_leaders IN
         IF Len(leaders) = 0 THEN LeaderLookupPanic
         ELSE [kind |-> "Ok",
               key |-> leaders[(view % Len(leaders)) + 1].stake_table_key]
    ELSE LeaderLookupError

\* mutant: the epoch is not compared with first_epoch
lookup_leader_AnyEpoch(c, view, epoch) ==
    IF c.first_epoch # None /\ epoch # None
    THEN IF ~MapHas(c.randomized_committees, epoch[1])
         THEN LeaderLookupError
         ELSE [kind |-> "Ok", key |-> select_randomized_leader(
                           MapGet(c.randomized_committees, epoch[1]), view).stake_table_key]
    ELSE IF epoch = None
    THEN LET leaders == c.non_epoch_committee.eligible_leaders IN
         IF Len(leaders) = 0 THEN LeaderLookupPanic
         ELSE [kind |-> "Ok",
               key |-> leaders[(view % Len(leaders)) + 1].stake_table_key]
    ELSE LeaderLookupError

\* lookup_leader: the match on (first_epoch, epoch)
lookup_leader(c, view, epoch) ==
    IF c.first_epoch # None /\ epoch # None
    THEN IF epoch[1] < c.first_epoch[1] THEN LeaderLookupError
         ELSE IF ~MapHas(c.randomized_committees, epoch[1])
         THEN LeaderLookupError
         ELSE [kind |-> "Ok", key |-> select_randomized_leader(
                           MapGet(c.randomized_committees, epoch[1]), view).stake_table_key]
    ELSE IF epoch = None
    THEN LET leaders == c.non_epoch_committee.eligible_leaders IN
         IF Len(leaders) = 0 THEN LeaderLookupPanic
         ELSE [kind |-> "Ok",
               key |-> leaders[(view % Len(leaders)) + 1].stake_table_key]
    ELSE LeaderLookupError

\* has_randomized_stake_table: <<"Ok", b>> or <<"Err">>
has_randomized_stake_table(c, epoch) ==
    IF c.first_epoch = None THEN <<"Err">>
    ELSE IF ~(epoch >= c.first_epoch[1]) THEN <<"Err">>
    ELSE <<"Ok", MapHas(c.randomized_committees, epoch)>>

Called(op, epoch, view, drb, res) ==
    [op |-> op, epoch |-> epoch, view |-> view, drb |-> drb, res |-> res]

\* the cache variables take the fields of c
Becomes(c) ==
    /\ non_epoch_committee' = c.non_epoch_committee
    /\ state' = c.state
    /\ randomized_committees' = c.randomized_committees
    /\ first_epoch' = c.first_epoch
    /\ block_reward' = c.block_reward

\* the cache variables have the fields of c
CacheIs(c) ==
    /\ non_epoch_committee = c.non_epoch_committee
    /\ state = c.state
    /\ randomized_committees = c.randomized_committees
    /\ first_epoch = c.first_epoch
    /\ block_reward = c.block_reward

CacheInit ==
    /\ StakeIdle
    /\ pc = "api"
    /\ SelIdle /\ ThrIdle /\ LockIdle /\ FetcherIdle /\ EventsIdle
    /\ \E members \in MemberLists : CacheIs(new_stake(members, 0))
    /\ last_call = Called("new_stake", None, 0, 0, LeaderLookupError)

CacheFrame ==
    UNCHANGED <<validators, used_bls_keys, used_schnorr_keys, event, result,
                exited, bls_holders, pc, selVars, thrVars, lockVars,
                fetcherVars, eventVars>>

\* update(epoch, validators, None), as reload_stake calls it
Update ==
    /\ \E epoch \in Epochs, vs \in UpdateMaps :
          /\ Becomes(update(Cache, epoch, vs, None))
          /\ last_call' = Called("update", <<epoch>>, 0, 0, LeaderLookupError)
    /\ CacheFrame

AddDrbResult ==
    /\ \E epoch \in Epochs, drb \in Drbs :
          /\ Becomes(add_drb_result(Cache, epoch, drb))
          /\ last_call' =
                Called("add_drb_result", <<epoch>>, 0, drb, LeaderLookupError)
    /\ CacheFrame

SetFirstEpoch ==
    /\ \E epoch \in Epochs, drb \in Drbs :
          /\ epoch + 1 \in Epochs
          /\ Becomes(set_first_epoch(Cache, epoch, drb))
          /\ last_call' =
                Called("set_first_epoch", <<epoch>>, 0, drb, LeaderLookupError)
    /\ CacheFrame

LookupLeader ==
    /\ \E view \in Views, epoch \in {None} \cup {<<e>> : e \in Epochs} :
          last_call' = Called("lookup_leader", epoch, view, 0,
                              lookup_leader(Cache, view, epoch))
    /\ UNCHANGED <<non_epoch_committee, state, randomized_committees,
                   first_epoch, block_reward>>
    /\ CacheFrame

CacheSpec ==
    CacheInit /\ [][Update \/ AddDrbResult \/ SetFirstEpoch \/ LookupLeader]_vars

\* C15 as stated: lookup_leader returns LeaderLookupError for every
\* combination other than (first_epoch unset, epoch absent) and (first_epoch
\* set, epoch given).
C15_Original ==
    last_call.op = "lookup_leader" =>
        ((first_epoch = None) # (last_call.epoch = None)
            => last_call.res = LeaderLookupError)

\* C15: lookup_leader returns LeaderLookupError when first_epoch is unset and
\* an epoch is given; when the epoch is absent it returns the non-epoch
\* eligible leader at index view mod n, whether first_epoch is set or not.
C15_LeaderLookupByCombination ==
    last_call.op = "lookup_leader" =>
        /\ first_epoch = None /\ last_call.epoch # None
              => last_call.res = LeaderLookupError
        /\ last_call.epoch = None
              => LET leaders == non_epoch_committee.eligible_leaders IN
                 last_call.res =
                     [kind |-> "Ok", key |-> leaders[(last_call.view % Len(leaders)) + 1].stake_table_key]

\* C15 witness: with first_epoch set, a lookup without an epoch returned a
\* leader of the non-epoch committee.
C15_Witness ==
    /\ last_call.op = "lookup_leader"
    /\ first_epoch # None
    /\ last_call.epoch = None
    /\ last_call.res.kind = "Ok"

Tasks == {"t1", "t2"}
\* the block reward fetch_block_reward returns
Rewards == {1}

\* done is the history of a call: the writes it has made, the failure of
\* its reward fetch and, for a cycle of the update loop, that it has retried
TaskIdle ==
    [op |-> "none", pc |-> "idle", epoch |-> Genesis, stake_tables |-> None,
     reward |-> None, done |-> {}, finalized_block |-> None,
     to_block |-> None]

\* the awaits of a guard: the guard a task at pc waits for and where it goes
\* on when it has the guard; <<>> when the task is not waiting for a guard
Awaits(at) ==
    CASE at = "read" -> <<"read", "reading">>
      [] at = "fetch" -> <<"chain_config", "get_chain_config">>
      [] at = "set_chain_config" -> <<"chain_config", "setting">>
      [] at = "load_events" -> <<"persistence", "loading">>
      [] at = "store_events" -> <<"persistence", "storing_events">>
      [] at = "read_again" -> <<"read", "reward_check">>
      [] at = "fetch_block_reward" -> <<"chain_config", "reward_config">>
      [] at = "store" -> <<"persistence", "storing">>
      [] at = "write" -> <<"write", "updating">>
      [] at = "loop_config" -> <<"chain_config", "loop_checking">>
      [] at = "reload" -> <<"write", "reload_load">>
      [] at = "reload_load" -> <<"persistence", "load_latest_stake">>
      [] at = "lock" -> <<"update_task", "locked">>
      [] OTHER -> <<>>

\* the tasks that keep a guard from being given: for a mutex its holder; for
\* the write guard the holders of a read or write guard; for a read guard
\* the holder of the write guard and, the lock being write-preferring, the
\* tasks waiting for the write guard
Blockers(l) ==
    IF l = "read"
    THEN {u \in DOMAIN held :
             \/ "write" \in held[u]
             \/ Awaits(tasks[u].pc) # <<>> /\ Awaits(tasks[u].pc)[1] = "write"}
    ELSE IF l = "write"
    THEN {u \in DOMAIN held : held[u] \cap {"read", "write"} # {}}
    ELSE {u \in DOMAIN held : l \in held[u]}

\* RwLock::read, RwLock::write and Mutex::lock return when the guard is free
Free(l) == Blockers(l) = {}

At(t, ops, pcs) == tasks[t].op \in ops /\ tasks[t].pc \in pcs

\* task t goes on as the record r, holding the guards h
Move(t, r, h) ==
    /\ tasks' = [tasks EXCEPT ![t] = r]
    /\ held' = [held EXCEPT ![t] = h]

\* task t goes on at pc `to`, giving up the guards in `dropped`
Goto(t, to, dropped) ==
    Move(t, [tasks[t] EXCEPT !.pc = to], held[t] \ dropped)

LockFrame ==
    UNCHANGED <<validators, used_bls_keys, used_schnorr_keys, event, result,
                exited, bls_holders, pc, selVars, thrVars, last_call,
                fetcherVars, eventVars>>

CacheUnchanged ==
    UNCHANGED <<non_epoch_committee, state, randomized_committees,
                first_epoch, block_reward>>

LockInit ==
    /\ StakeIdle
    /\ pc = "api"
    /\ SelIdle /\ ThrIdle /\ EventsIdle
    /\ update_task = None /\ spawned = 0 /\ last_finalized = <<1>>
    /\ \E members \in {m \in MemberLists : Len(m) = 1},
          reward \in {0} \cup Rewards :
          CacheIs(new_stake(members, reward))
    /\ last_call = Called("new_stake", None, 0, 0, LeaderLookupError)
    /\ tasks = [t \in Tasks |-> TaskIdle]
    /\ held = [t \in Tasks |-> {}]

\* the calls a task makes one after the other
Calls ==
    {"none", "add_epoch_root", "get_epoch_root", "get_epoch_drb",
     "reload_stake", "spawn_update_loop"}

\* a task calls add_epoch_root(membership, epoch, block_header)
AddEpochRoot ==
    /\ \E t \in Tasks, epoch \in Epochs :
          /\ At(t, Calls, {"idle", "ok", "err"})
          /\ Move(t, [TaskIdle EXCEPT !.op = "add_epoch_root", !.pc = "read",
                                      !.epoch = epoch], held[t])
    /\ CacheUnchanged /\ LockFrame

\* a task calls get_epoch_root or get_epoch_drb
GetEpochRoot ==
    /\ \E t \in Tasks, op \in {"get_epoch_root", "get_epoch_drb"},
          epoch \in Epochs :
          /\ At(t, Calls, {"idle", "ok", "err"})
          /\ Move(t, [TaskIdle EXCEPT !.op = op, !.pc = "read",
                                      !.epoch = epoch], held[t])
    /\ CacheUnchanged /\ LockFrame

\* membership.read().await, membership.write().await and the lock().await of
\* the chain config and of the persistence return the guard
Acquire ==
    /\ \E t \in DOMAIN tasks :
          /\ tasks[t].op # "spawn_update_loop"
          /\ Awaits(tasks[t].pc) # <<>>
          /\ Free(Awaits(tasks[t].pc)[1])
          /\ Move(t, [tasks[t] EXCEPT !.pc = Awaits(tasks[t].pc)[2]],
                  held[t] \cup {Awaits(tasks[t].pc)[1]})
    /\ CacheUnchanged /\ LockFrame

\* add_epoch_root: return Ok if the epoch is stored, else clone the fetcher
\* and drop the guard; fetcher.fetch is awaited next
CheckEpoch ==
    /\ \E t \in Tasks :
          /\ At(t, {"add_epoch_root"}, {"reading"})
          /\ Goto(t, IF MapHas(state, tasks[t].epoch) THEN "ok" ELSE "fetch",
                  {"read"})
    /\ CacheUnchanged /\ LockFrame

\* get_chain_config, under the chain-config guard: the header's chain config
\* is the stored one or resolves, or it is fetched from the peers; the guard
\* is dropped when the function returns
GetChainConfig ==
    /\ \E t \in Tasks :
          \/ /\ At(t, {"add_epoch_root"}, {"get_chain_config"})
             /\ \/ Goto(t, "set_chain_config", {"chain_config"})
                \/ Goto(t, "fetch_chain_config", {})
          \/ /\ At(t, {"add_epoch_root"}, {"fetch_chain_config"})
             /\ \E to \in {"set_chain_config", "err"} :
                   Goto(t, to, {"chain_config"})
    /\ CacheUnchanged /\ LockFrame

\* where a task goes on when fetch_and_store_stake_table_events returns an
\* error: fetch bails, the update loop sleeps and retries
Failed(t) == IF tasks[t].op = "update_loop" THEN "retry" ELSE "err"

\* mutant: the persistence guard taken for load_events is not dropped
FetchEvents_KeepsGuard ==
    /\ \E t \in DOMAIN tasks :
          \/ /\ At(t, {"add_epoch_root", "update_loop"}, {"loading"})
             /\ \E to \in {Failed(t), "store_events", "fetch_contract"} :
                   Goto(t, to, {})
          \/ /\ At(t, {"add_epoch_root", "update_loop"}, {"fetch_contract"})
             /\ \E to \in {Failed(t), "store_events"} : Goto(t, to, {})
    /\ CacheUnchanged /\ LockFrame

\* fetch_events: load_events returns under the persistence guard, which is
\* dropped; the events are complete, or the contract is queried
FetchEvents ==
    /\ \E t \in DOMAIN tasks :
          \/ /\ At(t, {"add_epoch_root", "update_loop"}, {"loading"})
             /\ \E to \in {Failed(t), "store_events", "fetch_contract"} :
                   Goto(t, to, {"persistence"})
          \/ /\ At(t, {"add_epoch_root", "update_loop"}, {"fetch_contract"})
             /\ \E to \in {Failed(t), "store_events"} : Goto(t, to, {})
    /\ CacheUnchanged /\ LockFrame

\* fetch_and_store_stake_table_events: store_events returns under the
\* persistence guard, which is dropped
StoreEvents ==
    /\ \E t \in DOMAIN tasks :
          /\ At(t, {"add_epoch_root", "update_loop"}, {"storing_events"})
          /\ \E to \in {Failed(t),
                        IF tasks[t].op = "update_loop" THEN "sleep"
                        ELSE "fetched"} :
                Goto(t, to, {"persistence"})
    /\ CacheUnchanged /\ LockFrame

\* fetcher.fetch: the chain config is stored under its guard and the events
\* are fetched; then the active validator set is built from the events
Fetch ==
    /\ \E t \in Tasks :
          \/ /\ At(t, {"add_epoch_root"}, {"setting"})
             /\ \E to \in {"load_events", "err"} : Goto(t, to, {"chain_config"})
          \/ /\ At(t, {"add_epoch_root"}, {"fetched"})
             /\ \/ \E vs \in UpdateMaps :
                      Move(t, [tasks[t] EXCEPT !.pc = "read_again",
                                               !.stake_tables = <<vs>>], held[t])
                \/ Goto(t, "err", {})
    /\ CacheUnchanged /\ LockFrame

\* under the second read guard: fetch_block_reward is awaited if the block
\* reward is zero; otherwise the block ends and the guard is dropped
RewardCheck ==
    /\ \E t \in Tasks :
          /\ At(t, {"add_epoch_root"}, {"reward_check"})
          /\ IF block_reward = 0
             THEN Goto(t, "fetch_block_reward", {})
             ELSE Goto(t, "store", {"read"})
    /\ CacheUnchanged /\ LockFrame

\* mutant: an error of fetch_block_reward is dropped and the call goes on
\* without a reward
FetchBlockReward_Swallowed ==
    /\ \E t \in Tasks :
          \/ /\ At(t, {"add_epoch_root"}, {"reward_config"})
             /\ \/ Goto(t, "reward_l1", {"chain_config"})
                \/ Move(t, [tasks[t] EXCEPT !.pc = "store",
                                            !.done = @ \cup {"reward_failed"}],
                        held[t] \ {"chain_config", "read"})
          \/ /\ At(t, {"add_epoch_root"}, {"reward_l1"})
             /\ \/ \E r \in Rewards :
                      Move(t, [tasks[t] EXCEPT !.pc = "store", !.reward = <<r>>],
                           held[t] \ {"read"})
                \/ Move(t, [tasks[t] EXCEPT !.pc = "store",
                                            !.done = @ \cup {"reward_failed"}],
                        held[t] \ {"read"})
    /\ CacheUnchanged /\ LockFrame

\* fetch_block_reward: the chain config is copied under its guard, then the
\* L1 is queried; when it returns the block of add_epoch_root ends or the
\* error is returned, and the read guard is dropped
FetchBlockReward ==
    /\ \E t \in Tasks :
          \/ /\ At(t, {"add_epoch_root"}, {"reward_config"})
             /\ \/ Goto(t, "reward_l1", {"chain_config"})
                \/ Move(t, [tasks[t] EXCEPT !.pc = "err",
                                            !.done = @ \cup {"reward_failed"}],
                        held[t] \ {"chain_config", "read"})
          \/ /\ At(t, {"add_epoch_root"}, {"reward_l1"})
             /\ \/ \E r \in Rewards :
                      Move(t, [tasks[t] EXCEPT !.pc = "store", !.reward = <<r>>],
                           held[t] \ {"read"})
                \/ Move(t, [tasks[t] EXCEPT !.pc = "err",
                                            !.done = @ \cup {"reward_failed"}],
                        held[t] \ {"read"})
    /\ CacheUnchanged /\ LockFrame

\* persistence_lock.store_stake(..).await returns (an error is logged)
StoreStake ==
    /\ \E t \in Tasks :
          /\ At(t, {"add_epoch_root"}, {"storing"})
          /\ Move(t, [tasks[t] EXCEPT !.pc = "write",
                                      !.done = @ \cup {"store_stake"}],
                  held[t] \ {"persistence"})
    /\ CacheUnchanged /\ LockFrame

\* membership_writer.update(epoch, stake_tables, block_reward); Ok(())
WriteUpdate ==
    /\ \E t \in Tasks :
          /\ At(t, {"add_epoch_root"}, {"updating"})
          /\ Becomes(update(Cache, tasks[t].epoch, tasks[t].stake_tables[1],
                            tasks[t].reward))
          /\ Move(t, [tasks[t] EXCEPT !.pc = "ok", !.done = @ \cup {"update"}],
                  held[t] \ {"write"})
    /\ LockFrame

\* get_epoch_root / get_epoch_drb: clone peers, stake table and threshold,
\* drop the guard; the leaf is fetched from the peers next
CloneHandles ==
    /\ \E t \in Tasks :
          /\ At(t, {"get_epoch_root", "get_epoch_drb"}, {"reading"})
          /\ Goto(t, "fetch_leaf", {"read"})
    /\ CacheUnchanged /\ LockFrame

\* peers.fetch_leaf / try_fetch_leaf returns
FetchLeaf ==
    /\ \E t \in Tasks :
          /\ At(t, {"get_epoch_root", "get_epoch_drb"}, {"fetch_leaf"})
          /\ \E r \in {"ok", "err"} : Goto(t, r, {})
    /\ CacheUnchanged /\ LockFrame

\* reload_stake(&mut self), called under the write guard of the cache: the
\* stored stake tables are loaded under the persistence guard and given to
\* update; with nothing loaded, or an error, it returns
ReloadStake ==
    \/ /\ \E t \in Tasks :
             /\ At(t, Calls, {"idle", "ok", "err"})
             /\ Move(t, [TaskIdle EXCEPT !.op = "reload_stake", !.pc = "reload"],
                     held[t])
       /\ CacheUnchanged /\ LockFrame
    \/ /\ \E t \in Tasks :
             /\ At(t, {"reload_stake"}, {"load_latest_stake"})
             /\ Goto(t, "ok", {"persistence", "write"})
             /\ \/ CacheUnchanged
                \/ \E epoch \in Epochs, vs \in UpdateMaps :
                      Becomes(update(Cache, epoch, vs, None))
       /\ LockFrame

\* mutant: a retry reads the finalized block again
UpdateLoop_RereadsBlock ==
    /\ \E t \in DOMAIN tasks :
          \/ /\ update_task # None
             /\ \A u \in DOMAIN tasks : tasks[u].op # "update_loop"
             /\ At(t, Calls, {"idle", "ok", "err"})
             /\ Move(t, [TaskIdle EXCEPT !.op = "update_loop",
                                         !.pc = "loop_config"], held[t])
          \/ /\ At(t, {"update_loop"}, {"loop_checking"})
             /\ \E to \in {"loop_config", "finalized"} :
                   Goto(t, to, {"chain_config"})
          \/ /\ At(t, {"update_loop"}, {"finalized"})
             /\ last_finalized # None
             /\ Move(t, [tasks[t] EXCEPT !.pc = "load_events",
                                         !.finalized_block = last_finalized,
                                         !.to_block = last_finalized,
                                         !.done = {}], held[t])
          \/ /\ At(t, {"update_loop"}, {"retry"})
             /\ Move(t, [tasks[t] EXCEPT !.pc = "load_events",
                                         !.to_block = last_finalized,
                                         !.done = @ \cup {"retried"}],
                     held[t])
          \/ /\ At(t, {"update_loop"}, {"sleep"})
             /\ Goto(t, "finalized", {})
    /\ CacheUnchanged /\ LockFrame

\* the update loop, running once it is spawned.  It reads the contract
\* address under the chain-config guard until there is one.  A cycle reads
\* the finalized block (under the mutex of the L1 client's state, taken and
\* dropped in that step) once there is one, and calls
\* fetch_and_store_stake_table_events with it; after an error it sleeps and
\* calls again, after a success it sleeps and starts the next cycle.
UpdateLoop ==
    /\ \E t \in DOMAIN tasks :
          \/ /\ update_task # None
             /\ \A u \in DOMAIN tasks : tasks[u].op # "update_loop"
             /\ At(t, Calls, {"idle", "ok", "err"})
             /\ Move(t, [TaskIdle EXCEPT !.op = "update_loop",
                                         !.pc = "loop_config"], held[t])
          \/ /\ At(t, {"update_loop"}, {"loop_checking"})
             /\ \E to \in {"loop_config", "finalized"} :
                   Goto(t, to, {"chain_config"})
          \/ /\ At(t, {"update_loop"}, {"finalized"})
             /\ last_finalized # None
             /\ Move(t, [tasks[t] EXCEPT !.pc = "load_events",
                                         !.finalized_block = last_finalized,
                                         !.to_block = last_finalized,
                                         !.done = {}], held[t])
          \/ /\ At(t, {"update_loop"}, {"retry"})
             /\ Move(t, [tasks[t] EXCEPT !.pc = "load_events",
                                         !.to_block = tasks[t].finalized_block,
                                         !.done = @ \cup {"retried"}],
                     held[t])
          \/ /\ At(t, {"update_loop"}, {"sleep"})
             /\ Goto(t, "finalized", {})
    /\ CacheUnchanged /\ LockFrame

\* C18 as stated: no task awaits fetch, fetch_block_reward or another L1
\* call of add_epoch_root, get_epoch_root or get_epoch_drb while it holds a
\* read guard of the committee cache.
C18_Original ==
    \A t \in Tasks :
        tasks[t].pc \in {"fetch", "get_chain_config", "fetch_chain_config",
                         "set_chain_config", "setting", "load_events",
                         "loading", "fetch_contract", "store_events",
                         "storing_events", "fetched", "fetch_block_reward",
                         "reward_config", "reward_l1", "fetch_leaf"}
            => "read" \notin held[t]

(***************************************************************************)
(* Fetcher::spawn_update_loop, called by concurrent tasks on a Fetcher and *)
(* on its clones, which share the update_task slot behind its mutex.       *)
(***************************************************************************)
Callers == {"c1", "c2", "c3"}
\* calls are made until this many update loops have been spawned
MaxLoops == 3

\* mutant: the slot is taken for empty whatever it holds
IsNone_Always(slot) == TRUE

\* update_task.is_none()
IsNone(slot) == slot = None

FetcherFrame ==
    UNCHANGED <<validators, used_bls_keys, used_schnorr_keys, event, result,
                exited, bls_holders, pc, selVars, thrVars, cacheVars,
                eventVars>>

\* Fetcher::new: the slot is empty
FetcherInit ==
    /\ StakeIdle
    /\ pc = "api"
    /\ SelIdle /\ ThrIdle /\ CacheIdle /\ EventsIdle
    /\ tasks = [c \in Callers |-> TaskIdle]
    /\ held = [c \in Callers |-> {}]
    /\ update_task = None
    /\ spawned = 0
    /\ last_finalized = None

\* a task calls spawn_update_loop on the Fetcher or on a clone of it
SpawnUpdateLoop ==
    /\ spawned < MaxLoops
    /\ \E c \in DOMAIN tasks :
          /\ At(c, Calls, {"idle", "ok", "err"})
          /\ Move(c, [TaskIdle EXCEPT !.op = "spawn_update_loop", !.pc = "lock"],
                  held[c])
    /\ UNCHANGED fetcherVars
    /\ FetcherFrame

\* self.update_task.0.lock().await returns the guard
LockSlot ==
    /\ \E c \in DOMAIN tasks :
          /\ At(c, {"spawn_update_loop"}, {"lock"})
          /\ Free("update_task")
          /\ Move(c, [tasks[c] EXCEPT !.pc = "locked"],
                  held[c] \cup {"update_task"})
    /\ UNCHANGED fetcherVars
    /\ FetcherFrame

\* if update_task.is_none() { *update_task = Some(spawn(self.update_loop())) }
\* and the guard is dropped; stake_tables is what the call found in the slot
\* and reward the handle of the loop it spawned
SpawnIfNone ==
    /\ \E c \in DOMAIN tasks :
          /\ At(c, {"spawn_update_loop"}, {"locked"})
          /\ IF IsNone(update_task)
             THEN /\ update_task' = <<c>>
                  /\ spawned' = spawned + 1
                  /\ UNCHANGED last_finalized
                  /\ Move(c, [tasks[c] EXCEPT !.pc = "ok",
                                              !.stake_tables = update_task,
                                              !.reward = <<c>>],
                          held[c] \ {"update_task"})
             ELSE /\ UNCHANGED fetcherVars
                  /\ Move(c, [tasks[c] EXCEPT !.pc = "ok",
                                              !.stake_tables = update_task],
                          held[c] \ {"update_task"})
    /\ FetcherFrame

FetcherSpec ==
    FetcherInit /\ [][SpawnUpdateLoop \/ LockSlot \/ SpawnIfNone]_vars

\* C19: however spawn_update_loop is called on a Fetcher and its clones, at
\* most one update loop is ever spawned, and a call that found the slot
\* occupied spawned nothing.
C19_OneUpdateLoop ==
    /\ spawned <= 1
    /\ spawned = 0 <=> update_task = None
    /\ \A c \in DOMAIN tasks :
          tasks[c].op = "spawn_update_loop" /\ tasks[c].pc = "ok"
              /\ tasks[c].stake_tables # None
              => tasks[c].reward = None

\* C19 witness: a loop is running, one call has returned after finding the
\* slot occupied, and two other calls are under way, one holding the guard.
C19_Witness ==
    /\ spawned = 1
    /\ \E c, d, e \in Callers :
          /\ c # d /\ d # e /\ c # e
          /\ tasks[c].pc = "ok" /\ tasks[c].stake_tables # None
          /\ tasks[d].pc = "locked"
          /\ tasks[e].pc = "lock"

(***************************************************************************)
(* Sorting and deduplicating events: the sort_by_key that ends sort_events *)
(* and the dedup of fetch_events, applied to a list xs and to xs ++ xs.    *)
(***************************************************************************)
MaxLen == 3
\* EventKey = (block_number, log_index)
EventKeys == {<<0, 0>>, <<0, 1>>, <<1, 0>>, <<1, 1>>}
EventPairs == EventKeys \X {"A", "B"}
EventLists == UNION {[1..n -> EventPairs] : n \in 0..MaxLen}

\* the order of EventKey: lexicographic on (block_number, log_index)
KeyLess(a, b) == a[1] < b[1] \/ (a[1] = b[1] /\ a[2] < b[2])

\* events.sort_by_key(|(key, _)| *key): a stable sort, so the pairs of the
\* least key come first in their order in s, then the rest
RECURSIVE sort_by_key(_)
sort_by_key(s) ==
    IF s = <<>> THEN <<>>
    ELSE LET keys == {s[i][1] : i \in 1..Len(s)}
             m == CHOOSE k \in keys : \A j \in keys : ~KeyLess(j, k)
         IN SelectSeq(s, LAMBDA p : p[1] = m)
                \o sort_by_key(SelectSeq(s, LAMBDA p : p[1] # m))

\* mutant: nothing is removed
dedup_Nothing(s) == s

\* events.dedup(): of each run of consecutive equal elements the first is kept
dedup(s) ==
    LET kept == {i \in 1..Len(s) : i = 1 \/ s[i] # s[i - 1]}
        Nth(n) == CHOOSE i \in kept : Cardinality({j \in kept : j <= i}) = n
    IN [n \in 1..Cardinality(kept) |-> s[Nth(n)]]

EventsInit ==
    /\ StakeIdle
    /\ pc = "sort"
    /\ SelIdle /\ ThrIdle /\ CacheIdle /\ LockIdle /\ FetcherIdle
    /\ xs \in EventLists
    /\ events = <<>>

EventsFrame ==
    UNCHANGED <<validators, used_bls_keys, used_schnorr_keys, event, result,
                exited, bls_holders, selVars, thrVars, cacheVars, lockVars,
                fetcherVars, xs>>

\* the events vector is built from xs or from xs ++ xs and sorted by key
SortEvents ==
    /\ pc = "sort"
    /\ \E input \in {xs, xs \o xs} :
          events' = [from |-> input, list |-> sort_by_key(input)]
    /\ pc' = "dedup"
    /\ EventsFrame

\* adjacent duplicates are removed from the sorted vector
DedupEvents ==
    /\ pc = "dedup"
    /\ events' = [events EXCEPT !.list = dedup(@)]
    /\ pc' = "deduped"
    /\ EventsFrame

EventsSpec == EventsInit /\ [][SortEvents \/ DedupEvents]_vars

\* C20 as stated: for every list xs, sorting xs ++ xs by key and removing
\* adjacent duplicates gives the same list as doing so with xs.
C20_Original ==
    pc = "deduped" /\ events.from = xs \o xs
        => events.list = dedup(sort_by_key(xs))

\* no two pairs of s have the same key and different events
KeysIdentifyEvents(s) ==
    \A i, j \in 1..Len(s) : s[i][1] = s[j][1] => s[i][2] = s[j][2]

\* C20: for every list xs in which pairs with equal keys carry equal events,
\* sorting xs ++ xs by key and removing adjacent duplicates gives the same
\* list as sorting xs by key and removing adjacent duplicates.
C20_SortDedupIdempotent ==
    pc = "deduped" /\ events.from = xs \o xs /\ KeysIdentifyEvents(xs)
        => events.list = dedup(sort_by_key(xs))

\* C20 witness: xs ++ xs was sorted and deduplicated for an unsorted xs of
\* three pairs, two of them equal, whose keys identify their events.
C20_Witness ==
    /\ pc = "deduped"
    /\ Len(xs) = MaxLen
    /\ events.from = xs \o xs
    /\ KeysIdentifyEvents(xs)
    /\ KeyLess(xs[2][1], xs[1][1])
    /\ xs[1] = xs[3]
    /\ Len(events.list) = 2

\* the V1 event with the account, keys and commission of a V2 event
V1Of(ev) ==
    IF ev.tag = "RegisterV2"
    THEN [tag |-> "Register", account |-> ev.account, blsVk |-> ev.blsVk,
          schnorrVk |-> ev.schnorrVk, commission |-> ev.commission]
    ELSE [tag |-> "KeyUpdate", account |-> ev.account, blsVk |-> ev.blsVk,
          schnorrVk |-> ev.schnorrVk]

\* C22: in every state, an authenticated RegisterV2 gives the same result and
\* the same resulting state as the Register with the same account, keys and
\* commission, and an authenticated KeyUpdateV2 the same as the KeyUpdate
\* with the same account and keys.
C22_V2NormalizesToV1 ==
    \A ev \in AuthenticV2 : ApplyEvent(State, ev) = ApplyEvent(State, V1Of(ev))

\* C22 witness: beside a validator registered by a V1 event, a second one was
\* just refused an authenticated KeyUpdateV2 for a Schnorr key already used,
\* a state in which V2 events meet a used BLS key and a registered account.
C22_Witness ==
    /\ Len(validators) = 2
    /\ event.tag = "KeyUpdateV2"
    /\ result.kind = "Expected"
    /\ \E ev \in AuthenticV2 :
          ApplyEvent(State, ev).result.err = "BlsKeyAlreadyUsed"
    /\ \E ev \in AuthenticV2 :
          ApplyEvent(State, ev).result.err = "AlreadyRegistered"

\* C30: an Undelegate that succeeds subtracts the amount from the validator's
\* stake and from the delegator's entry, removes that entry exactly when it
\* reaches zero, keeps the validator in the map whatever stake is left, and
\* changes nothing else; an Undelegate by a delegator with no entry on the
\* validator returns a fatal error.
C30_UndelegateSubtracts ==
    \A ev \in UndelegateEvents :
        LET r == ApplyEvent(State, ev)
            vs == r.state.validators IN
        /\ r.result = OkResult =>
              /\ ContainsKey(validators, ev.validator)
              /\ KeysOf(vs) = KeysOf(validators) /\ Len(vs) = Len(validators)
              /\ LET i == IndexOf(validators, ev.validator)
                     v == validators[i]
                     left == Delegated(v, ev.delegator) - ev.amount IN
                 /\ MapHas(v.delegators, ev.delegator)
                 /\ vs[i].stake = v.stake - ev.amount
                 /\ Delegated(vs[i], ev.delegator) = left
                 /\ MapHas(vs[i].delegators, ev.delegator) <=> left # 0
                 /\ vs = [validators EXCEPT
                            ![i].stake = vs[i].stake,
                            ![i].delegators =
                                IF left = 0 THEN MapRemove(@, ev.delegator)
                                ELSE MapSet(@, ev.delegator, left)]
              /\ r.state.used_bls_keys = used_bls_keys
              /\ r.state.used_schnorr_keys = used_schnorr_keys
        /\ (ContainsKey(validators, ev.validator)
               => ~MapHas(Val(validators, ev.validator).delegators, ev.delegator))
           => IsFatal(r.result)

\* C30 witness: an Undelegate succeeded that took the last stake of a
\* validator, which stays in the map with stake zero and no delegator.
C30_Witness ==
    /\ event.tag = "Undelegate"
    /\ result = OkResult
    /\ ContainsKey(validators, event.target)
    /\ Val(validators, event.target).stake = 0
    /\ Val(validators, event.target).delegators = {}
    /\ \E ev \in UndelegateEvents : ApplyEvent(State, ev).result = OkResult

\* the positions in the given map of the validators that pass the
\* minimum-stake filter
Passing ==
    {i \in 1..Len(selected_from) :
        /\ IsValid(selected_from[i])
        /\ selected_from[i].stake >=
              MaximumStake(Qualifying) \div VID_TARGET_TOTAL_STAKE}

\* C29: when more than 100 validators pass the minimum-stake filter, the
\* selection keeps 100 of them, in the relative order of the given map; an
\* excluded validator that passed the filter has no more stake than any kept
\* one, and stands later in the map than every kept one of the same stake.
C29_TopHundredStable ==
    pc = "selected" =>
        \E kept \in {{validators[i].account : i \in 1..Len(validators)}},
           passing \in {Passing} :
            Cardinality(passing) > 100 =>
                /\ Len(validators) = 100
                /\ validators =
                      SelectSeq(selected_from, LAMBDA v : v.account \in kept)
                /\ \A i \in passing :
                      selected_from[i].account \notin kept =>
                          \A j \in passing :
                              selected_from[j].account \in kept =>
                                  \/ selected_from[i].stake < selected_from[j].stake
                                  \/ /\ selected_from[i].stake = selected_from[j].stake
                                     /\ j < i

\* C29 witness: of 102 validators that passed the filter, one excluded has
\* the stake of a kept one, and a kept one of greater stake stands later in
\* the map than an excluded one.
C29_Witness ==
    /\ pc = "selected"
    /\ Cardinality(Passing) = 102
    /\ Len(validators) = 100
    /\ \E i, j \in 1..Len(selected_from) :
          /\ \A k \in 1..Len(validators) :
                validators[k].account # selected_from[i].account
          /\ \E k \in 1..Len(validators) :
                validators[k].account = selected_from[j].account
          /\ i < j
          /\ selected_from[i].stake < selected_from[j].stake
          /\ IsValid(selected_from[i])
          /\ selected_from[i].stake = validators[1].stake

\* C27 as stated: in every state of the cache, each epoch with a randomized
\* committee has a stored epoch committee, and the randomized committee was
\* built from the eligible leaders of the committee now stored for the epoch.
C27_Original ==
    \A e \in Epochs :
        MapHas(randomized_committees, e) =>
            /\ MapHas(state, e)
            /\ MapGet(randomized_committees, e).leaders
                  = MapGet(state, e).eligible_leaders

\* C28: a call of add_epoch_root whose fetch_block_reward failed has returned
\* an error, and it has neither written a stake table to persistence with
\* store_stake nor updated the cache: through this call no committee is
\* stored for the epoch and block_reward keeps its value.
C28_RewardErrorAborts ==
    \A t \in DOMAIN tasks :
        "reward_failed" \in tasks[t].done =>
            /\ tasks[t].pc = "err"
            /\ tasks[t].done = {"reward_failed"}
            /\ tasks[t].reward = None
            /\ held[t] = {}

\* C28 witness: a call for an epoch without a committee has failed in
\* fetch_block_reward; the cache still has no committee for the epoch and a
\* block reward of zero, while the other task is inside a call of its own.
C28_Witness ==
    \E t, u \in Tasks :
        /\ t # u
        /\ "reward_failed" \in tasks[t].done
        /\ tasks[t].stake_tables # None
        /\ ~MapHas(state, tasks[t].epoch)
        /\ block_reward = 0
        /\ tasks[u].op = "add_epoch_root" /\ tasks[u].pc = "fetch_block_reward"

LockSpec ==
    LockInit /\ [][AddEpochRoot \/ GetEpochRoot \/ Acquire \/ CheckEpoch
                   \/ GetChainConfig \/ FetchEvents \/ StoreEvents \/ Fetch
                   \/ RewardCheck \/ FetchBlockReward \/ StoreStake
                   \/ WriteUpdate \/ CloneHandles \/ FetchLeaf \/ ReloadStake
                   \/ UpdateLoop \/ SpawnUpdateLoop \/ LockSlot
                   \/ SpawnIfNone]_vars

\* task t waits for a guard that cannot be given now
Blocked(t) ==
    Awaits(tasks[t].pc) # <<>> /\ ~Free(Awaits(tasks[t].pc)[1])

\* C26: no task waits for the chain-config mutex while it holds the
\* persistence mutex, and there is no deadlock on the chain-config mutex,
\* the persistence mutex, the update-task guard and the cache lock: a task
\* that has returned or sleeps holds no guard, and whenever a task waits for
\* a guard that cannot be given, one of the tasks that keep the guard from
\* it is not itself waiting for a guard that cannot be given.
C26_NoDeadlock ==
    \A t \in DOMAIN tasks :
        /\ Awaits(tasks[t].pc) # <<>> /\ Awaits(tasks[t].pc)[1] = "chain_config"
              => "persistence" \notin held[t]
        /\ tasks[t].pc \in {"idle", "ok", "err", "retry", "sleep"}
              => held[t] = {}
        /\ Blocked(t) =>
              \E u \in Blockers(Awaits(tasks[t].pc)[1]) : ~Blocked(u)

\* C26 witness: add_epoch_root waits for the chain-config mutex inside
\* fetch_block_reward, holding a read guard of the cache, while the update
\* loop holds the mutex.
C26_Witness ==
    \E t, u \in Tasks :
        /\ tasks[t].pc = "fetch_block_reward"
        /\ "read" \in held[t]
        /\ Blocked(t)
        /\ tasks[u].op = "update_loop"
        /\ "chain_config" \in held[u]

(***************************************************************************)
(* The update loop alone, with the L1 client finalizing blocks beside it.  *)
(***************************************************************************)
MaxBlock == 4

\* the update loop has been spawned; no block is finalized yet
LoopInit ==
    /\ StakeIdle
    /\ pc = "api"
    /\ SelIdle /\ ThrIdle /\ CacheIdle /\ EventsIdle
    /\ tasks = [t \in {"loop"} |->
                   [TaskIdle EXCEPT !.op = "update_loop", !.pc = "loop_config"]]
    /\ held = [t \in {"loop"} |-> {}]
    /\ update_task = <<"loop">>
    /\ spawned = 1
    /\ last_finalized = None

\* the L1 client records a later finalized block
L1Finalize ==
    /\ \E block \in 1..MaxBlock :
          /\ IF last_finalized = None THEN TRUE ELSE last_finalized[1] < block
          /\ last_finalized' = <<block>>
    /\ UNCHANGED <<validators, used_bls_keys, used_schnorr_keys, event, result,
                   exited, bls_holders, pc, selVars, thrVars, cacheVars,
                   lockVars, update_task, spawned, eventVars>>

LoopSpec ==
    LoopInit /\ [][UpdateLoop \/ Acquire \/ FetchEvents \/ StoreEvents
                   \/ L1Finalize]_vars

\* C25: every attempt of fetch_and_store_stake_table_events is made with the
\* finalized block read at the start of the cycle; after a failed attempt
\* the loop calls again with that same block; and it reads a finalized
\* block for the next cycle only after an attempt has succeeded.
C25_CycleKeepsBlock ==
    /\ [](\A t \in DOMAIN tasks :
             tasks[t].op = "update_loop" /\ tasks[t].to_block # None
                 => tasks[t].to_block = tasks[t].finalized_block)
    /\ [][\A t \in DOMAIN tasks :
             tasks[t].op = "update_loop" =>
                 /\ tasks[t].pc = "retry" /\ tasks'[t].pc # "retry"
                       => /\ tasks'[t].pc = "load_events"
                          /\ tasks'[t].to_block = tasks[t].to_block
                          /\ tasks'[t].finalized_block = tasks[t].finalized_block
                 /\ tasks'[t].finalized_block # tasks[t].finalized_block
                       => \/ tasks[t].finalized_block = None
                          \/ tasks[t].pc = "finalized"
                 /\ tasks'[t].pc = "finalized"
                       => tasks[t].pc \in {"finalized", "sleep", "loop_checking"}
                 /\ tasks'[t].pc = "sleep"
                       => tasks[t].pc \in {"sleep", "storing_events"}
                 /\ tasks[t].pc \in {"loading", "fetch_contract",
                                     "storing_events"}
                       => tasks'[t].pc \in {tasks[t].pc, "fetch_contract",
                                            "store_events", "retry", "sleep"}]_vars

\* C25 witness: after a failed attempt the loop is calling again with block
\* 1, read at the start of the cycle, while the L1 client has finalized a
\* later block.
C25_Witness ==
    /\ "loop" \in DOMAIN tasks
    /\ tasks["loop"].pc = "load_events"
    /\ tasks["loop"].to_block = <<1>>
    /\ last_finalized = <<MaxBlock>>
    /\ "retried" \in tasks["loop"].done

(***************************************************************************)
(* One call of fetch_events, step by step between its awaits: the reply of *)
(* persistence, the contract's init block, the filter queries of           *)
(* fetch_events_from_contract chunk by chunk and kind by kind, and the     *)
(* sort, concatenation and dedup that end the call.  xs is the contract's  *)
(* log; the pairs tagged "A" are ValidatorRegistered events and those      *)
(* tagged "B" are Delegated events, so no query returns a V2 event.  rpc   *)
(* and retried are history: a call to the L1 provider was made, a failed   *)
(* call was made again.                                                    *)
(***************************************************************************)
LastBlock == 2
MaxRange == 2

\* the seven filters, in the order their streams are collected
EventKinds ==
    <<"ValidatorRegistered", "ValidatorRegisteredV2", "ValidatorExit",
      "Delegated", "Undelegated", "ConsensusKeysUpdated",
      "ConsensusKeysUpdatedV2">>

KindOf(tag) == IF tag = "A" THEN "ValidatorRegistered" ELSE "Delegated"

\* the contract's log: at most one pair for a key, in the order of the keys
ContractLogs ==
    {l \in EventLists : \A i \in 1..Len(l) - 1 : KeyLess(l[i][1], l[i + 1][1])}

\* the replies of load_events: an offset, absent or Complete or
\* UntilL1Block(n), and the events read
ReadOffsets ==
    {None, <<[tag |-> "Complete", block |-> 0]>>}
        \cup {<<[tag |-> "UntilL1Block", block |-> n]>> : n \in 0..LastBlock - 1}
PersistedLists ==
    {l \in EventLists : Len(l) <= 2 /\ \A i \in 1..Len(l) : l[i][1][1] = 0}

\* the chunks iterator: from `start`, ranges of chunk_size blocks, the last
\* one cut at `end`
RECURSIVE Chunks(_, _, _)
Chunks(start, end, chunk_size) ==
    LET chunk_end == IF start + chunk_size - 1 < end
                     THEN start + chunk_size - 1 ELSE end
    IN IF chunk_end < start THEN <<>>
       ELSE <<<<start, chunk_end>>>> \o Chunks(chunk_end + 1, end, chunk_size)

\* the filter queries of one call in the order they are awaited: the streams
\* are collected one after the other, each over all the chunks
Queries(from_block, to_block, chunk_size) ==
    LET chunks == Chunks(from_block, to_block, chunk_size)
        n == Len(chunks)
    IN [i \in 1..Len(EventKinds) * n |->
           [kind |-> EventKinds[((i - 1) \div n) + 1],
            chunk |-> chunks[((i - 1) % n) + 1]]]

\* what the provider answers to a filter query that succeeds
Query(q) ==
    SelectSeq(xs, LAMBDA p : /\ KindOf(p[2]) = q.kind
                             /\ p[1][1] >= q.chunk[1]
                             /\ p[1][1] <= q.chunk[2])

CallIdle ==
    [to_block |-> 0, chunk_size |-> 0, init_block |-> 0,
     read_l1_offset |-> None, persistence_events |-> <<>>,
     from_block |-> None, queries |-> <<>>, queried |-> 0, rpc |-> FALSE, retried |-> FALSE,
     contract_events |-> <<>>,
     ret |-> [kind |-> "None", err |-> "-", list |-> <<>>]]

FetchEventsInit ==
    /\ StakeIdle
    /\ pc = "load_events"
    /\ SelIdle /\ ThrIdle /\ CacheIdle /\ LockIdle /\ FetcherIdle
    /\ xs \in ContractLogs
    /\ \E to_block \in 1..LastBlock, chunk_size \in 1..MaxRange,
          init_block \in {0, LastBlock}, offset \in ReadOffsets,
          persisted \in PersistedLists :
          events = [CallIdle EXCEPT !.to_block = to_block,
                                    !.chunk_size = chunk_size,
                                    !.init_block = init_block,
                                    !.read_l1_offset = offset,
                                    !.persistence_events = persisted]

\* the call goes on at `to` with the record r
Step(to, r) == pc' = to /\ events' = r /\ EventsFrame

\* the call returns r
Return(r) == Step("returned", [events EXCEPT !.ret = r])

\* the filter queries start from block `from`, or there is none to make
StartQueries(from) ==
    LET qs == Queries(from, events.to_block, events.chunk_size) IN
    Step(IF qs = <<>> THEN "collected" ELSE "query",
         [events EXCEPT !.from_block = IF pc = "load_events" THEN <<from>> ELSE @,
                        !.queries = qs,
                        !.rpc = IF pc = "load_events" THEN @ ELSE TRUE])

\* mutant: the events read are deduplicated when the offset is Complete
LoadEvents_Dedups ==
    /\ pc = "load_events"
    /\ \/ Return([kind |-> "Err", err |-> "load_events", list |-> <<>>])
       \/ /\ events.read_l1_offset # None
          /\ events.read_l1_offset[1].tag = "Complete"
          /\ Return([kind |-> "Ok", err |-> "-", list |-> dedup(events.persistence_events)])
       \/ /\ events.read_l1_offset # None
          /\ events.read_l1_offset[1].tag = "UntilL1Block"
          /\ IF events.to_block >= events.read_l1_offset[1].block + 1
             THEN StartQueries(events.read_l1_offset[1].block + 1)
             ELSE Return([kind |-> "Err", err |-> "to_block", list |-> <<>>])
       \/ /\ events.read_l1_offset = None
          /\ Step("init_block", events)

\* load_events returns: an error ends the call; with the offset Complete
\* the events read are returned; with UntilL1Block(n) the queries start at
\* n + 1 unless that is after to_block, an error; with no offset the
\* contract's init block is asked for
LoadEvents ==
    /\ pc = "load_events"
    /\ \/ Return([kind |-> "Err", err |-> "load_events", list |-> <<>>])
       \/ /\ events.read_l1_offset # None
          /\ events.read_l1_offset[1].tag = "Complete"
          /\ Return([kind |-> "Ok", err |-> "-", list |-> events.persistence_events])
       \/ /\ events.read_l1_offset # None
          /\ events.read_l1_offset[1].tag = "UntilL1Block"
          /\ IF events.to_block >= events.read_l1_offset[1].block + 1
             THEN StartQueries(events.read_l1_offset[1].block + 1)
             ELSE Return([kind |-> "Err", err |-> "to_block", list |-> <<>>])
       \/ /\ events.read_l1_offset = None
          /\ Step("init_block", events)

\* initializedAtBlock() answers
InitializedAtBlock ==
    /\ pc = "init_block"
    /\ StartQueries(events.init_block)

\* initializedAtBlock() or a filter query fails: the call sleeps
QueryErr ==
    /\ pc \in {"init_block", "query"}
    /\ Step(IF pc = "query" THEN "sleep" ELSE "init_sleep",
            [events EXCEPT !.rpc = TRUE])

\* mutant: a query that failed is given up and the next one is made
Sleep_Skips ==
    /\ pc \in {"sleep", "init_sleep"}
    /\ Step(IF pc = "init_sleep" THEN "init_block"
            ELSE IF events.queried + 1 = Len(events.queries) THEN "collected"
            ELSE "query",
            [events EXCEPT !.queried = IF pc = "sleep" THEN @ + 1 ELSE @,
                           !.retried = TRUE])

\* the retry delay is over: the same call is made again
Sleep ==
    /\ pc \in {"sleep", "init_sleep"}
    /\ Step(IF pc = "sleep" THEN "query" ELSE "init_block",
            [events EXCEPT !.retried = TRUE])

\* a filter query succeeds: its events are added to those collected and the
\* next query of the stream, or the first of the next stream, is made
QueryOk ==
    /\ pc = "query"
    /\ Step(IF events.queried + 1 = Len(events.queries) THEN "collected"
            ELSE "query",
            [events EXCEPT
                !.contract_events = @ \o Query(events.queries[events.queried + 1]),
                !.queried = @ + 1,
                !.rpc = TRUE])

\* mutant: the events read are chained whatever from_block is
CollectEvents_Chains ==
    /\ pc = "collected"
    /\ Return([kind |-> "Ok", err |-> "-",
               list |-> dedup(events.persistence_events
                                \o sort_by_key(events.contract_events))])

\* fetch_events_from_contract returns: the events are sorted by key, chained
\* after the events read when from_block is Some, and deduplicated
CollectEvents ==
    /\ pc = "collected"
    /\ LET contract_events == sort_by_key(events.contract_events) IN
       Return([kind |-> "Ok", err |-> "-",
               list |-> dedup(IF events.from_block # None
                              THEN events.persistence_events \o contract_events
                              ELSE contract_events)])

FetchEventsNext ==
    \/ LoadEvents \/ InitializedAtBlock \/ QueryErr \/ Sleep \/ QueryOk
    \/ CollectEvents

FetchEventsSpec == FetchEventsInit /\ [][FetchEventsNext]_vars

\* the offset read is Complete
ReadComplete ==
    events.read_l1_offset # None /\ events.read_l1_offset[1].tag = "Complete"

\* C21: when load_events reports the offset Complete, fetch_events returns
\* exactly the events read, in their order, and makes no call to the L1
\* provider.
C21_CompleteReturnsPersisted ==
    ReadComplete =>
        /\ ~events.rpc
        /\ pc \in {"load_events", "returned"}
        /\ pc = "returned" /\ events.ret.kind = "Ok"
              => events.ret.list = events.persistence_events

\* C21 witness: with the offset Complete the call returned the two equal
\* events read, while the contract's log has an event up to to_block that
\* was not read.
C21_Witness ==
    /\ ReadComplete
    /\ pc = "returned"
    /\ events.ret.kind = "Ok"
    /\ Len(events.persistence_events) = 2
    /\ events.persistence_events[1] = events.persistence_events[2]
    /\ Len(events.ret.list) = 2
    /\ \E i \in 1..Len(xs) :
          /\ xs[i][1][1] <= events.to_block
          /\ xs[i] # events.persistence_events[1]

\* the events of the contract's log in the blocks from..to_block, sorted by
\* key
SortedFrom(from) ==
    sort_by_key(SelectSeq(xs, LAMBDA p : /\ p[1][1] >= from
                                         /\ p[1][1] <= events.to_block))

\* every event read is in the list returned
PersistedKept ==
    \A i \in 1..Len(events.persistence_events) :
        \E j \in 1..Len(events.ret.list) :
            events.ret.list[j] = events.persistence_events[i]

FetchEventsFairInit ==
    /\ FetchEventsInit
    /\ Len(xs) <= 1
    /\ events.persistence_events = <<>>

\* a call to the L1 provider that is made again and again succeeds in the
\* end; a step of the call that can be taken is taken
FetchEventsFairSpec ==
    /\ FetchEventsFairInit
    /\ [][FetchEventsNext]_vars
    /\ WF_vars(LoadEvents) /\ WF_vars(Sleep) /\ WF_vars(CollectEvents)
    /\ SF_vars(InitializedAtBlock) /\ SF_vars(QueryOk)

\* the first block of the range queried
FirstBlock ==
    IF events.from_block # None THEN events.from_block[1] ELSE events.init_block

C36_Original ==
    \A ev \in Events :
        IsFatal(ApplyEvent(State, ev).result) => ApplyEvent(State, ev).state = State

\* C39: for every total stake n >= 1, success_threshold(n) is at most n, and
\* two success quorums overlap in at least a failure threshold of stake:
\* 2 * success_threshold(n) - n >= failure_threshold(n), the left side taken
\* in unbounded integers, on both sides of the overflow guard.
C39_QuorumsOverlap ==
    threshold.fn = "failure" /\ total_stake >= 1 =>
        LET success == success_threshold(total_stake).value IN
        /\ success <= total_stake
        /\ 2 * success - total_stake >= threshold.value
        /\ threshold.value = total_stake \div 3 + 1

\* C39 witness: the failure threshold of a total stake of MAX/2 or more was
\* computed, the success threshold coming from the branch that divides
\* first, and two success quorums overlap in one more than it.
C39_Witness ==
    /\ threshold.fn = "failure"
    /\ total_stake >= U256_MAX \div 2
    /\ total_stake % 3 = 2
    /\ 2 * success_threshold(total_stake).value - total_stake
          = threshold.value + 1

\* C40: select_active_validator_set, called on a map for which it has
\* returned Ok, returns Ok again and leaves the map as it was: the same
\* validators, in the same order, with the same stakes.
C40_SelectIdempotent ==
    /\ pc = "selected" =>
          SelectActiveValidatorSet(validators)
              = [validators |-> validators, result |-> OkResult]
    /\ pc = "selected_again" => result = OkResult /\ validators = selected_from
    /\ pc = "select_err" => selected_from \in SelMaps

\* C40 witness: the second call returned Ok on the 100 validators the first
\* call had kept, stakes that differ among them.
C40_Witness ==
    /\ pc = "selected_again"
    /\ Len(validators) = MaxActive
    /\ validators = selected_from
    /\ \E i, j \in 1..Len(validators) :
          validators[i].stake < validators[j].stake /\ i < j

(***************************************************************************)
(* lookup_leader on the cache new_stake builds from any member list, with  *)
(* or without members that have a stake.                                   *)
(***************************************************************************)
AnyMemberLists ==
    LET peers == {PeerConfig(k, stake, "s1") :
                     k \in BlsKeys, stake \in {0, 1, 2}}
    IN UNION {[1..n -> peers] : n \in 0..2}

LeaderInit ==
    /\ StakeIdle
    /\ pc = "api"
    /\ SelIdle /\ ThrIdle /\ LockIdle /\ FetcherIdle /\ EventsIdle
    /\ \E members \in AnyMemberLists : CacheIs(new_stake(members, 0))
    /\ last_call = Called("new_stake", None, 0, 0, LeaderLookupError)

LeaderSpec == LeaderInit /\ [][LookupLeader]_vars

\* C38 as stated: on the cache new_stake builds from any member list,
\* lookup_leader(view, None) returns Ok with the key of the eligible leader
\* at index view mod n, for every view.
C38_Original ==
    last_call.op = "lookup_leader" /\ last_call.epoch = None =>
        /\ last_call.res.kind = "Ok"
        /\ last_call.res.key =
              non_epoch_committee.eligible_leaders[
                  (last_call.view % Len(non_epoch_committee.eligible_leaders)) + 1
              ].stake_table_key

(***************************************************************************)
(* The index update builds: address and get_validator_config on the        *)
(* committees stored from validator maps of one or two validators, with    *)
(* different BLS keys or the same.                                         *)
(***************************************************************************)
IndexMaps ==
    LET V(a, k, stake) ==
            [NewValidator(a, k, HomeSchnorr(a), 5) EXCEPT
                !.stake = stake, !.delegators = {<<"d1", stake>>}]
    IN {<<V(a, k, st)>> : a \in Accounts, k \in {"k1", "k2"}, st \in {1, 2}}
       \cup {<<V(p[1], k, 1), V(p[2], l, 2)>> :
                p \in {q \in Accounts \X Accounts : q[1] # q[2]},
                k \in {"k1", "k2"}, l \in {"k1", "k2"}}

\* address(epoch, bls_key)
address(c, epoch, bls_key) ==
    IF ~MapHas(c.state, epoch) THEN [kind |-> "Err", value |-> <<>>]
    ELSE LET mapping == MapGet(c.state, epoch).address_mapping IN
         IF ~MapHas(mapping, bls_key) THEN [kind |-> "Err", value |-> <<>>]
         ELSE [kind |-> "Ok", value |-> <<MapGet(mapping, bls_key)>>]

\* get_validator_config(epoch, key)
get_validator_config(c, epoch, key) ==
    LET a == address(c, epoch, key) IN
    IF a.kind = "Err" THEN a
    ELSE LET vs == MapGet(c.state, epoch).validators IN
         IF ~ContainsKey(vs, a.value[1]) THEN [kind |-> "Err", value |-> <<>>]
         ELSE [kind |-> "Ok", value |-> <<vs[IndexOf(vs, a.value[1])]>>]

IndexInit ==
    /\ StakeIdle
    /\ pc = "api"
    /\ SelIdle /\ ThrIdle /\ LockIdle /\ FetcherIdle /\ EventsIdle
    /\ CacheIs(new_stake(<<PeerConfig("k1", 1, "s1")>>, 0))
    /\ last_call = Called("new_stake", None, 0, 0, LeaderLookupError)

\* update(epoch, validators, None) with any of the maps
UpdateIndex ==
    /\ \E epoch \in {Genesis, Genesis + 1}, vs \in IndexMaps :
          /\ Becomes(update(Cache, epoch, vs, None))
          /\ last_call' = Called("update", <<epoch>>, 0, 0, LeaderLookupError)
    /\ CacheFrame

\* a call of get_validator_config(epoch, key)
GetValidatorConfig ==
    /\ \E epoch \in {Genesis, Genesis + 1}, key \in {"k1", "k2"} :
          last_call' = Called("get_validator_config", <<epoch>>, 0, 0,
                              [key |-> key,
                               ret |-> get_validator_config(Cache, epoch, key)])
    /\ UNCHANGED <<non_epoch_committee, state, randomized_committees,
                   first_epoch, block_reward>>
    /\ CacheFrame

IndexSpec == IndexInit /\ [][UpdateIndex \/ GetValidatorConfig]_vars

\* the validators of the committee have pairwise distinct BLS keys
DistinctBls(vs) ==
    \A i, j \in 1..Len(vs) :
        vs[i].stake_table_key = vs[j].stake_table_key => i = j

\* C31: for every committee stored by update from a validator map with
\* pairwise distinct BLS keys, the stake-table index lists the validators in
\* the map's order, each under its BLS key with its stake and its Schnorr
\* key; address gives the account of a validator for its BLS key and
\* get_validator_config gives the validator.
C31_IndexMatchesValidators ==
    /\ \A e \in Epochs :
          MapHas(state, e) /\ DistinctBls(MapGet(state, e).validators)
                           /\ MapGet(state, e).validators # <<>> =>
              LET vs == MapGet(state, e).validators
                  index == MapGet(state, e).stake_table IN
              /\ Len(index) = Len(vs)
              /\ \A i \in 1..Len(vs) :
                    /\ index[i] = PeerConfig(vs[i].stake_table_key, vs[i].stake,
                                             vs[i].state_ver_key)
                    /\ address(Cache, e, vs[i].stake_table_key)
                          = [kind |-> "Ok", value |-> <<vs[i].account>>]
                    /\ get_validator_config(Cache, e, vs[i].stake_table_key)
                          = [kind |-> "Ok", value |-> <<vs[i]>>]
    /\ last_call.op = "get_validator_config"
          /\ MapHas(state, last_call.epoch[1])
          /\ DistinctBls(MapGet(state, last_call.epoch[1]).validators) =>
          \A i \in 1..Len(MapGet(state, last_call.epoch[1]).validators) :
              LET v == MapGet(state, last_call.epoch[1]).validators[i] IN
              v.stake_table_key = last_call.res.key
                  => last_call.res.ret = [kind |-> "Ok", value |-> <<v>>]

\* C31 witness: get_validator_config returned the second of two validators
\* with different BLS keys, k2 the first and k1 the second, stored for the
\* epoch by update.
C31_Witness ==
    /\ last_call.op = "get_validator_config"
    /\ MapHas(state, last_call.epoch[1])
    /\ LET vs == MapGet(state, last_call.epoch[1]).validators IN
       /\ Len(vs) = 2
       /\ vs[1].stake_table_key = "k2"
       /\ vs[2].stake_table_key = "k1"
       /\ last_call.res = [key |-> "k1", ret |-> [kind |-> "Ok", value |-> <<vs[2]>>]]

\* C37 as stated: of the add_epoch_root calls for one epoch, repeated or
\* running at the same time, at most one fetches and writes the cache entry.
C37_Original ==
    \A t, u \in DOMAIN tasks :
        /\ t # u
        /\ tasks[t].op = "add_epoch_root" /\ tasks[u].op = "add_epoch_root"
        /\ tasks[t].epoch = tasks[u].epoch
        => ~("update" \in tasks[t].done /\ "update" \in tasks[u].done)


(***************************************************************************)
(* The chunks iterator of fetch_events_from_contract, one call of its      *)
(* closure at a time, in unsigned arithmetic of BlockWidth bits (64 in the *)
(* code) and for every l1_events_max_block_range, zero included.  A sum or *)
(* a difference that does not fit panics when the build checks overflow,   *)
(* and wraps when it does not.                                             *)
(***************************************************************************)
BlockWidth == 3
U64_MAX == 2 ^ BlockWidth - 1
WrapU64(x) == x % (U64_MAX + 1)

\* the iterator is followed for this many chunks
MaxChunks == U64_MAX + 2

ChunksInit ==
    /\ StakeIdle
    /\ pc = "chunks"
    /\ SelIdle /\ ThrIdle /\ CacheIdle /\ LockIdle /\ FetcherIdle
    /\ xs = <<>>
    /\ \E from_block \in 0..U64_MAX, to_block \in 0..U64_MAX,
          chunk_size \in 0..U64_MAX, overflow_checks \in BOOLEAN :
          /\ from_block <= to_block
          /\ events = [from_block |-> from_block, start |-> from_block,
                       end |-> to_block, chunk_size |-> chunk_size,
                       overflow_checks |-> overflow_checks, chunks |-> <<>>]

\* the closure given to from_fn is called once more
NextChunk ==
    /\ pc = "chunks"
    /\ Len(events.chunks) < MaxChunks
    /\ LET sum == events.start + events.chunk_size
           last == WrapU64(sum) - 1
           bound == WrapU64(last)
           chunk_end == IF bound < events.end THEN bound ELSE events.end
       IN IF events.overflow_checks /\ (sum > U64_MAX \/ last < 0)
          THEN Step("chunks_panic", events)
          ELSE IF chunk_end < events.start
          THEN Step("chunks_done", events)
          ELSE IF events.overflow_checks /\ chunk_end + 1 > U64_MAX
          THEN Step("chunks_panic", events)
          ELSE Step("chunks",
                    [events EXCEPT !.start = WrapU64(chunk_end + 1),
                                   !.chunks = Append(@, <<events.start, chunk_end>>)])

ChunksSpec == ChunksInit /\ [][NextChunk]_vars

\* C34 as stated: for every from_block <= to_block and every configured
\* range the iterator ends, and its chunks are consecutive inclusive ranges
\* of at most chunk_size blocks that start at from_block and end at to_block.
C34_Original ==
    /\ pc # "chunks_panic"
    /\ Len(events.chunks) < MaxChunks
    /\ pc = "chunks_done" =>
          LET chunks == events.chunks
              n == Len(chunks)
          IN /\ n >= 1
             /\ chunks[1][1] = events.from_block
             /\ chunks[n][2] = events.end
             /\ \A i \in 1..n :
                   /\ chunks[i][1] <= chunks[i][2]
                   /\ chunks[i][2] - chunks[i][1] + 1 <= events.chunk_size
             /\ \A i \in 1..n - 1 : chunks[i + 1][1] = chunks[i][2] + 1

(***************************************************************************)
(* scan_token_contract_initialized_event_log: the backward scan for the    *)
(* token contract's Initialized log, one turn of its loop at a time.  xs   *)
(* is the set of blocks that hold an Initialized log; a query fails or     *)
(* returns the logs of its window, lowest block first.  The cap on the     *)
(* blocks scanned is MAX_BLOCKS_SCANNED (200 000 in the code).             *)
(***************************************************************************)
MAX_BLOCKS_SCANNED == 4

saturating_sub(a, b) == IF a >= b THEN a - b ELSE 0

ScanInit ==
    /\ StakeIdle
    /\ pc = "scan"
    /\ SelIdle /\ ThrIdle /\ CacheIdle /\ LockIdle /\ FetcherIdle
    /\ xs \in {s \in SUBSET (0..U64_MAX) : Cardinality(s) <= 1}
    /\ \E stake_table_init_block \in 0..U64_MAX, max_events_range \in 0..U64_MAX :
          events = [max_events_range |-> max_events_range,
                    total_scanned |-> 0,
                    from_block |-> saturating_sub(stake_table_init_block,
                                                  max_events_range),
                    to_block |-> stake_table_init_block,
                    queried |-> None,
                    ret |-> [kind |-> "None", err |-> "-", log |-> None]]

\* the top of the loop: the scan fails once the cap is reached, and asks
\* the provider for the logs of the window otherwise
ScanCheck ==
    /\ pc = "scan"
    /\ IF events.total_scanned >= MAX_BLOCKS_SCANNED
       THEN Return([kind |-> "Err", err |-> "ExceededMaxScanRange", log |-> None])
       ELSE Step("scan_query", [events EXCEPT !.queried = <<events.total_scanned>>])

\* the provider answers: the scan fails on an error, returns the first log
\* of the window, or moves the window back when there is none
ScanQuery ==
    /\ pc = "scan_query"
    /\ LET init_logs == {b \in xs : events.from_block <= b /\ b <= events.to_block}
       IN \/ Return([kind |-> "Err", err |-> "ScanQueryFailed", log |-> None])
          \/ /\ init_logs # {}
             /\ Return([kind |-> "Ok", err |-> "-",
                        log |-> <<CHOOSE b \in init_logs :
                                     \A c \in init_logs : b <= c>>])
          \/ /\ init_logs = {}
             /\ Step("scan",
                     [events EXCEPT
                         !.total_scanned = WrapU64(@ + events.max_events_range),
                         !.from_block = saturating_sub(@, events.max_events_range),
                         !.to_block = saturating_sub(@, events.max_events_range)])

\* the task is scheduled as long as it has a step to take, and the provider
\* answers every query
ScanSpec ==
    /\ ScanInit /\ [][ScanCheck \/ ScanQuery]_vars
    /\ WF_vars(ScanCheck) /\ WF_vars(ScanQuery)

\* C35 as stated: for every configured range and every init block the scan
\* returns, with a log, a query error or ExceededMaxScanRange, and no query
\* is made once the cap is reached.
C35_Original ==
    /\ <>(pc = "returned")
    /\ [](events.queried # None => events.queried[1] < MAX_BLOCKS_SCANNED)

(***************************************************************************)
(* Ingestion: the StakeTableEvents aggregate.  xs is the list of the logs  *)
(* the L1 provider holds, batch after batch; a log may lack its block      *)
(* number or its log index, and a V2 event carries its two signatures.     *)
(* from_l1_logs is called on the batches as they are, or at the end of     *)
(* fetch_events_from_contract on the batches its streams collected, and    *)
(* sort_events is called on the aggregate.  The field n of an event is the *)
(* place of its log in xs.                                                 *)
(***************************************************************************)
\* the seven batches, in the order sort_events reads them, and their events
Batches ==
    <<"registrations", "registrations_v2", "deregistrations", "delegated",
      "undelegated", "keys", "keys_v2">>
BatchTags ==
    <<"Register", "RegisterV2", "Deregister", "Delegate", "Undelegate",
      "KeyUpdate", "KeyUpdateV2">>
IsV2(k) == BatchTags[k] \in {"RegisterV2", "KeyUpdateV2"}

LogEntries ==
    {e \in [batch : 1..Len(Batches), blsSig : Sigs, schnorrSig : Sigs,
            block_number : {None, <<0>>, <<1>>}, log_index : {None, <<0>>, <<1>>}] :
        /\ ~IsV2(e.batch) => e.blsSig = "valid" /\ e.schnorrSig = "valid"
        /\ IsV2(e.batch) => e.blsSig = "valid" \/ e.schnorrSig = "valid"}
LogLists ==
    {l \in UNION {[1..n -> LogEntries] : n \in 0..MaxLen} :
        \A i \in 1..Len(l) - 1 : l[i].batch <= l[i + 1].batch}

\* the (event, log) pairs of batch k among the logs l
RECURSIVE BatchOf(_, _, _)
BatchOf(l, k, i) ==
    IF i > Len(l) THEN <<>>
    ELSE (IF l[i].batch = k
          THEN <<<<[tag |-> BatchTags[k], n |-> i,
                    blsSig |-> l[i].blsSig, schnorrSig |-> l[i].schnorrSig],
                   [block_number |-> l[i].block_number,
                    log_index |-> l[i].log_index]>>>>
          ELSE <<>>) \o BatchOf(l, k, i + 1)
BatchesOf(l) == [k \in 1..Len(Batches) |-> BatchOf(l, k, 1)]

\* what the V2 streams of fetch_events_from_contract keep of a query's reply
FilterStream(batch) == SelectSeq(batch, LAMBDA p : Authenticate(p[1]))

\* mutant: the key updates are taken as they are
from_l1_logs_KeysUnfiltered(b) ==
    [k \in 1..Len(Batches) |->
        IF Batches[k] = "registrations_v2" THEN FilterStream(b[k]) ELSE b[k]]

\* StakeTableEvents::from_l1_logs
from_l1_logs(b) ==
    [k \in 1..Len(Batches) |->
        IF Batches[k] \in {"registrations_v2", "keys_v2"}
        THEN SelectSeq(b[k], LAMBDA p : Authenticate(p[1]))
        ELSE b[k]]

RECURSIVE Concat(_, _)
Concat(b, k) == IF k > Len(b) THEN <<>> ELSE b[k] \o Concat(b, k + 1)

\* mutant: the key of an event is its log's block number alone
sort_events_ByBlock(b) ==
    LET all == Concat(b, 1)
        missing == {i \in 1..Len(all) : all[i][2].block_number = None
                                           \/ all[i][2].log_index = None}
        first == CHOOSE i \in missing : \A j \in missing : i <= j
    IN IF missing # {}
       THEN [kind |-> "Err",
             err |-> IF all[first][2].block_number = None
                     THEN "MissingBlockNumber" ELSE "MissingLogIndex",
             list |-> <<>>]
       ELSE [kind |-> "Ok", err |-> "-",
             list |-> sort_by_key(
                 [i \in 1..Len(all) |->
                     <<<<all[i][2].block_number[1], 0>>, all[i][1]>>])]

\* StakeTableEvents::sort_events: the pairs are keyed batch after batch, the
\* first log without a block number or a log index ends the call, and the
\* vector is sorted by key
sort_events(b) ==
    LET all == Concat(b, 1)
        missing == {i \in 1..Len(all) : all[i][2].block_number = None
                                           \/ all[i][2].log_index = None}
        first == CHOOSE i \in missing : \A j \in missing : i <= j
    IN IF missing # {}
       THEN [kind |-> "Err",
             err |-> IF all[first][2].block_number = None
                     THEN "MissingBlockNumber" ELSE "MissingLogIndex",
             list |-> <<>>]
       ELSE [kind |-> "Ok", err |-> "-",
             list |-> sort_by_key(
                 [i \in 1..Len(all) |->
                     <<<<all[i][2].block_number[1], all[i][2].log_index[1]>>,
                       all[i][1]>>])]

IngestInit ==
    /\ StakeIdle
    /\ pc \in {"fetch_events_from_contract", "from_l1_logs"}
    /\ SelIdle /\ ThrIdle /\ CacheIdle /\ LockIdle /\ FetcherIdle
    /\ xs \in LogLists
    /\ events = [fetched |-> pc = "fetch_events_from_contract",
                 batches |-> BatchesOf(xs),
                 ret |-> [kind |-> "None", err |-> "-", list |-> <<>>]]

\* fetch_events_from_contract collects its seven streams, the two V2
\* streams filtered reply by reply, and builds the aggregate
CollectStreams ==
    /\ pc = "fetch_events_from_contract"
    /\ Step("sort_events",
            [events EXCEPT !.batches =
                from_l1_logs([k \in 1..Len(Batches) |->
                                 IF IsV2(k) THEN FilterStream(@[k]) ELSE @[k]])])

\* from_l1_logs is called on the batches as they are
FromL1Logs ==
    /\ pc = "from_l1_logs"
    /\ Step("sort_events", [events EXCEPT !.batches = from_l1_logs(@)])

\* sort_events is called on the aggregate
SortAggregate ==
    /\ pc = "sort_events"
    /\ Step("sorted", [events EXCEPT !.ret = sort_events(events.batches)])

IngestSpec ==
    IngestInit /\ [][CollectStreams \/ FromL1Logs \/ SortAggregate]_vars

\* the events of the aggregate, as the places of their logs in xs
Kept ==
    UNION {{events.batches[k][j][1].n : j \in 1..Len(events.batches[k])} :
              k \in 1..Len(Batches)}
LogKey(i) == <<xs[i].block_number[1], xs[i].log_index[1]>>

\* C32: sort_events returns either an error, MissingBlockNumber or
\* MissingLogIndex, and no list, when a log of the aggregate lacks its block
\* number or its log index; or else every event of the seven batches once,
\* by non-decreasing (block_number, log_index), the events of one key in the
\* order of the batches.
C32_SortEvents ==
    pc = "sorted" =>
        LET ret == events.ret
            incomplete == \E i \in Kept : xs[i].block_number = None
                                            \/ xs[i].log_index = None
        IN IF incomplete
           THEN /\ ret.kind = "Err" /\ ret.list = <<>>
                /\ ret.err \in {"MissingBlockNumber", "MissingLogIndex"}
           ELSE /\ ret.kind = "Ok"
                /\ Len(ret.list) = Cardinality(Kept)
                /\ {ret.list[j][2].n : j \in 1..Len(ret.list)} = Kept
                /\ \A j \in 1..Len(ret.list) :
                      /\ ret.list[j][1] = LogKey(ret.list[j][2].n)
                      /\ ret.list[j][2].tag = BatchTags[xs[ret.list[j][2].n].batch]
                /\ \A j \in 1..Len(ret.list) - 1 :
                      \/ KeyLess(ret.list[j][1], ret.list[j + 1][1])
                      \/ /\ ret.list[j][1] = ret.list[j + 1][1]
                         /\ ret.list[j][2].n < ret.list[j + 1][2].n

\* C32 witness: three events are returned, two of one key from two batches
\* and one of a lesser key from a later batch.
C32_Witness ==
    /\ pc = "sorted" /\ events.ret.kind = "Ok" /\ Len(events.ret.list) = 3
    /\ events.ret.list[1][2].n = 3
    /\ events.ret.list[2][1] = events.ret.list[3][1]
    /\ events.ret.list[2][2].tag # events.ret.list[3][2].tag

\* C33: the aggregate holds every event of the V1 batches and the V2 events
\* that authenticate, each batch in the order of its logs, and sort_events
\* returns no V2 event that does not authenticate.
C33_DropsUnauthenticated ==
    pc \in {"sort_events", "sorted"} =>
        /\ Kept = {i \in 1..Len(xs) : IsV2(xs[i].batch) =>
                       xs[i].blsSig = "valid" /\ xs[i].schnorrSig = "valid"}
        /\ \A k \in 1..Len(Batches) :
              LET batch == events.batches[k] IN
              /\ \A j \in 1..Len(batch) :
                    /\ xs[batch[j][1].n].batch = k
                    /\ batch[j][1].tag = BatchTags[k]
                    /\ batch[j][1].blsSig = xs[batch[j][1].n].blsSig
                    /\ batch[j][1].schnorrSig = xs[batch[j][1].n].schnorrSig
                    /\ batch[j][2].block_number = xs[batch[j][1].n].block_number
                    /\ batch[j][2].log_index = xs[batch[j][1].n].log_index
              /\ \A j \in 1..Len(batch) - 1 : batch[j][1].n < batch[j + 1][1].n
        /\ \A j \in 1..Len(events.ret.list) :
              events.ret.list[j][2].tag \in {"RegisterV2", "KeyUpdateV2"}
                  => Authenticate(events.ret.list[j][2])

\* C33 witness: from_l1_logs was given a key update that does not
\* authenticate, a registration that does and a V1 event, and sort_events
\* returned the two events kept.
C33_Witness ==
    /\ pc = "sorted" /\ ~events.fetched
    /\ events.ret.kind = "Ok" /\ Len(events.ret.list) = 2
    /\ Len(xs) = 3
    /\ \E i \in 1..3 : xs[i].batch = 7 /\ xs[i].schnorrSig = "corrupt"
    /\ \E j \in 1..2 : events.ret.list[j][2].tag = "RegisterV2"
=============================================================================
